---------------------------- MODULE Spec2Model ----------------------------
(***************************************************************************)
(* Image-To-PDF: the library screen (src/app/(tabs)/index.tsx), the        *)
(* settings screen (src/app/(tabs)/explore.tsx) and the documents          *)
(* directory they share, as a state machine.                               *)
(*                                                                         *)
(* Strings are sequences of one-character strings, so that toLowerCase,    *)
(* endsWith, replace, trim and includes are computed as JavaScript         *)
(* computes them.  Every await of the source is a step of its own: the     *)
(* platform call takes effect and the continuation runs in that step.      *)
(***************************************************************************)
EXTENDS Integers, Sequences, FiniteSets, TLC

VARIABLES
    dir,               \* documents directory: sequence of files, enumeration order
    now,               \* the clock, in seconds (Date.now() / 1000)
    pdfs,              \* useState<PdfDoc[]>            index.tsx:73
    filteredPdfs,      \* useState<PdfDoc[]>            index.tsx:74
    searchQuery,       \* useState('')                  index.tsx:75
    isLoadingLibrary,  \* useState(true)                index.tsx:76
    isRefreshing,      \* useState(false)               index.tsx:77
    loads,             \* the loadLibrary calls in flight, one record per slot
    lastLoad,          \* history: how the most recently completed loadLibrary ended
    isRenameModalVisible, \* useState(false)           index.tsx:85
    renamingItem,      \* useState<PdfDoc | null>: <<>> for null, <<doc>> otherwise
    newFileName,       \* useState('')                 index.tsx:87
    ren,               \* the confirmRename call in flight
    editingId,         \* useState<string | null>(null): <<>> for null   part_001:115
    editingValue,      \* useState('')                                  part_001:116
    save,              \* the saveRename call in flight                  part_001:254
    del,               \* the item of the open 'Delete Document' alert, <<>> when closed
    alert,             \* the last Alert.alert shown besides the delete confirmation
    selectedImages,    \* useState<string[]>([])       index.tsx:78
    isProcessing,      \* useState(false)              index.tsx:79
    showDraftModal,    \* useState(false)              index.tsx:80
    pdfName,           \* useState('')                 index.tsx:81
    gens,              \* the generatePdf calls in flight
    pick,              \* the pickImages call in flight
    storageSize,       \* useState('0 MB')             explore.tsx:18
    docCount,          \* useState(0)                  explore.tsx:19
    clear,             \* the 'Delete All' handler of handleClearLibrary in flight
    calcs,             \* the calculateStorage calls in flight          explore.tsx:22
    lastOp             \* history: the handler or continuation that ran last

libVars == <<pdfs, filteredPdfs, searchQuery, isLoadingLibrary, isRefreshing, loads, lastLoad>>

editVars == <<editingId, editingValue, save>>

renVars == <<isRenameModalVisible, renamingItem, newFileName, ren, editVars>>

draftVars == <<selectedImages, isProcessing, showDraftModal, pdfName, gens, pick>>

setVars == <<storageSize, docCount, clear, calcs>>

vars == <<dir, now, libVars, renVars, del, alert, draftVars, setVars, lastOp>>

-----------------------------------------------------------------------------
(* Bounds of the model *)

MaxFiles == 2          \* files in an initial directory of SpecLoad
StartNow == 2          \* the clock at start; initial files were modified at 0..StartNow
MaxNow == 3            \* the clock stops advancing here
SecondsPerDay == 3     \* scale of the calendar: seconds in one day of the model; a day
                       \* ends between StartNow and MaxNow
MaxLoads == 2          \* loadLibrary calls that may overlap
MaxGens == 2           \* generatePdf calls the model has room for
MaxCalcs == 2          \* calculateStorage calls that may overlap
MaxImages == 2         \* images a draft may hold
ColPitch == 2          \* model length of ITEM_WIDTH + GAP, the pitch of the grid's columns
RowPitch == 3          \* model length of ITEM_WIDTH * 1.25 + GAP, the pitch of its rows
MaxDrag == 4           \* longest displacement of a drag along either axis
MaxDirFiles == 1       \* files the volume has room for during document creation

-----------------------------------------------------------------------------
(* Strings *)

\* String.prototype.toLowerCase, one character
LowerChar(c) ==
    CASE c = "A" -> "a" [] c = "B" -> "b" [] c = "C" -> "c" [] c = "D" -> "d"
      [] c = "F" -> "f" [] c = "P" -> "p" [] OTHER -> c

\* String.prototype.toLowerCase
ToLowerCase(s) == [i \in 1..Len(s) |-> LowerChar(s[i])]

\* String.prototype.endsWith
EndsWith(s, suffix) ==
    /\ Len(s) >= Len(suffix)
    /\ SubSeq(s, Len(s) - Len(suffix) + 1, Len(s)) = suffix

\* the literal '.pdf'
DotPdf == <<".", "p", "d", "f">>

\* FileSystem.documentDirectory, prefixed to a file name to make its uri
DocDir == <<"/">>

\* `${docDir}${fileName}`
UriOf(fileName) == DocDir \o fileName

\* the file name a uri of the documents directory refers to
NameOfUri(uri) == SubSeq(uri, Len(DocDir) + 1, Len(uri))

\* white space, as String.prototype.trim sees it
IsSpace(c) == c = " "

RECURSIVE TrimStart(_)
TrimStart(s) == IF s # <<>> /\ IsSpace(Head(s)) THEN TrimStart(Tail(s)) ELSE s

RECURSIVE TrimEnd(_)
TrimEnd(s) ==
    IF s # <<>> /\ IsSpace(s[Len(s)]) THEN TrimEnd(SubSeq(s, 1, Len(s) - 1)) ELSE s

\* mutant: the string as it is, white space included
Trim_Nothing(s) == s

\* String.prototype.trim
Trim(s) == TrimEnd(TrimStart(s))

\* String.prototype.indexOf, 1-based; 0 when pat does not occur
IndexOf(s, pat) ==
    LET hits == {i \in 1..Len(s) : /\ i + Len(pat) - 1 <= Len(s)
                                   /\ SubSeq(s, i, i + Len(pat) - 1) = pat}
    IN IF hits = {} THEN 0 ELSE CHOOSE i \in hits : \A j \in hits : i <= j

\* String.prototype.replace with a string pattern: the first occurrence only
Replace(s, pat, by) ==
    LET i == IndexOf(s, pat) IN
    IF i = 0 THEN s
    ELSE SubSeq(s, 1, i - 1) \o by \o SubSeq(s, i + Len(pat), Len(s))

-----------------------------------------------------------------------------
(* The documents directory (expo-file-system) *)

\* the position of the file called name in d, 0 when there is none
IndexOfName(d, name) ==
    IF \E i \in 1..Len(d) : d[i].name = name
    THEN CHOOSE i \in 1..Len(d) : d[i].name = name
    ELSE 0

Exists(d, name) == IndexOfName(d, name) # 0

FileNamed(d, name) == d[IndexOfName(d, name)]

\* FileSystem.readDirectoryAsync: the names, in enumeration order
ReadDirectory(d) == [i \in 1..Len(d) |-> d[i].name]

Range(s) == {s[i] : i \in 1..Len(s)}

\* directory d without the file called name
RemoveFile(d, name) == SelectSeq(d, LAMBDA f : f.name # name)

\* directory d with file f stored: an existing file of that name is overwritten in
\* place, a new one is enumerated last
PutFile(d, f) ==
    IF Exists(d, f.name)
    THEN [d EXCEPT ![IndexOfName(d, f.name)] = f]
    ELSE Append(d, f)

\* mutant: the source moved to the destination instead of copied
CopyFile_Move(d, from, to, clock) ==
    RemoveFile(PutFile(d, [FileNamed(d, from) EXCEPT !.name = to, !.mtime = clock]), from)

\* FileSystem.copyAsync({from, to}) when it resolves: the destination is replaced by
\* a copy of the source, written at time clock
CopyFile(d, from, to, clock) ==
    PutFile(d, [FileNamed(d, from) EXCEPT !.name = to, !.mtime = clock])

\* FileSystem.copyAsync({from, to}) resolves only when the source exists and is not
\* the destination; otherwise it rejects
CanCopy(d, from, to) == Exists(d, from) /\ from # to

\* the directories a rejected copyAsync may leave behind: untouched, or, when source
\* and destination are the same file, without it (the destination is removed before
\* the copy is attempted on one platform)
AfterFailedCopy(d, from, to) ==
    IF Exists(d, from) /\ from = to THEN {d, RemoveFile(d, from)} ELSE {d}

\* the content of the file the model first stores under name: a sequence of pages,
\* here one page, named after the file
ContentOf(name) == << <<name[1]>> >>

-----------------------------------------------------------------------------
(* loadLibrary: index.tsx:101-144 *)

MiB == 1024 * 1024

\* `${(info.size / (1024 * 1024)).toFixed(2)} MB`, as hundredths of a MB
SizeText(bytes) == [text |-> "fixed2", hundredths |-> (bytes * 100 + MiB \div 2) \div MiB]

\* the literal '0 MB'
ZeroMB == [text |-> "0 MB", hundredths |-> 0]

\* new Date(timestamp * 1000).toLocaleDateString(): the calendar day of the timestamp
LocaleDateString(timestamp) == [text |-> "date", day |-> timestamp \div SecondsPerDay]

\* the literal 'Error'
ErrorDate == [text |-> "Error", day |-> 0]

\* mutant: the suffix compared without toLowerCase
IsPdfName_CaseSensitive(file) == EndsWith(file, DotPdf)

\* files.filter(file => file.toLowerCase().endsWith('.pdf')), the predicate
IsPdfName(file) == EndsWith(ToLowerCase(file), DotPdf)

\* files.filter(file => file.toLowerCase().endsWith('.pdf'))
PdfFilesOf(files) == SelectSeq(files, IsPdfName)

\* info.modificationTime || Date.now() / 1000 (0 stands for a falsy modificationTime)
TimestampOf(mtime, clock) == IF mtime # 0 THEN mtime ELSE clock

\* the try branch of the map callback: getInfoAsync resolved against directory d
InfoDoc(fileName, d, clock) ==
    LET exists == Exists(d, fileName)
        size == IF exists THEN SizeText(FileNamed(d, fileName).size) ELSE ZeroMB
        timestamp == IF exists THEN TimestampOf(FileNamed(d, fileName).mtime, clock) ELSE 0
    IN [id |-> fileName, name |-> fileName, date |-> LocaleDateString(timestamp),
        size |-> size, uri |-> UriOf(fileName), timestamp |-> timestamp]

\* mutant: the catch branch dating its entry like a file without modification time
ErrorDoc_EpochDate(fileName) ==
    [id |-> fileName, name |-> fileName, date |-> LocaleDateString(0),
     size |-> ZeroMB, uri |-> UriOf(fileName), timestamp |-> 0]

\* the catch branch of the map callback: getInfoAsync threw
ErrorDoc(fileName) ==
    [id |-> fileName, name |-> fileName, date |-> ErrorDate,
     size |-> ZeroMB, uri |-> UriOf(fileName), timestamp |-> 0]

\* the comparator (a, b) => b.timestamp - a.timestamp: a goes before b when <= 0
KeepsOrder(a, b) == b.timestamp - a.timestamp <= 0

RECURSIVE InsertDoc(_, _)
\* x, the element that came later in the input, placed into the sorted sequence s
InsertDoc(s, x) ==
    IF s = <<>> THEN <<x>>
    ELSE IF KeepsOrder(s[Len(s)], x) THEN Append(s, x)
    ELSE Append(InsertDoc(SubSeq(s, 1, Len(s) - 1), x), s[Len(s)])

RECURSIVE SortDocs(_)
\* pdfDocs.sort((a, b) => b.timestamp - a.timestamp): a stable sort
SortDocs(docs) ==
    IF docs = <<>> THEN <<>>
    ELSE InsertDoc(SortDocs(SubSeq(docs, 1, Len(docs) - 1)), docs[Len(docs)])

\* String.prototype.includes
Includes(s, sub) ==
    \E i \in 1..(Len(s) + 1) :
        /\ i + Len(sub) - 1 <= Len(s)
        /\ SubSeq(s, i, i + Len(sub) - 1) = sub

\* a filter that compares the name and the query as they are written
FilterDocs_CaseSensitive(query, data) ==
    SelectSeq(data, LAMBDA p : Includes(p.name, query))

RECURSIVE FilterDocs(_, _)
\* data.filter(p => p.name.toLowerCase().includes(query.toLowerCase()))
FilterDocs(query, data) ==
    IF data = <<>> THEN <<>>
    ELSE IF Includes(ToLowerCase(Head(data).name), ToLowerCase(query))
         THEN <<Head(data)>> \o FilterDocs(query, Tail(data))
         ELSE FilterDocs(query, Tail(data))

\* applyFilter, index.tsx:146-152: the value it gives setFilteredPdfs
applyFilter(query, data) == IF query = <<>> THEN data ELSE FilterDocs(query, data)

\* the slots for loadLibrary calls in flight: a call that finds none free waits
LoadIds == DOMAIN loads

NoAlert == [title |-> "", message |-> ""]

IdleRename == [pc |-> "idle", from |-> <<>>, to |-> <<>>]

IdleSave == [pc |-> "idle", from |-> <<>>, to |-> <<>>]

IdlePick == [pc |-> "idle", isAppending |-> FALSE]

IdleClear == [pc |-> "idle", files |-> <<>>]

\* caller: what called calculateStorage, the mount effect (43) or the Delete All
\* handler (66)
IdleCalc == [pc |-> "idle", caller |-> "", files |-> <<>>, total |-> 0]

IdleCalcs == [c \in 1..MaxCalcs |-> IdleCalc]

\* by: the generatePdf call that awaits this loadLibrary call (282), 0 when none does;
\* threw: the entries whose getInfoAsync has thrown
IdleLoad ==
    [pc |-> "idle", by |-> 0, query |-> <<>>, files |-> <<>>, got |-> {}, threw |-> {},
     docs |-> <<>>]

\* order: the images whose read has completed, in the order of completion
IdleGen == [pc |-> "idle", images |-> <<>>, name |-> <<>>, order |-> <<>>, pages |-> <<>>]

HasFreeLoad == \E t \in LoadIds : loads[t].pc = "idle"

FreeLoad == CHOOSE t \in LoadIds : loads[t].pc = "idle"

\* loadLibrary up to its first await: the call closes over the searchQuery of the
\* render it was created in and asks for the directory listing
CalledLoad(caller) ==
    [IdleLoad EXCEPT !.pc = "readDir", !.by = caller, !.query = searchQuery]

\* loadLibrary(showSpinner) is called, awaited by caller: lines 101-107
loadLibraryFor(showSpinner, caller) ==
    /\ HasFreeLoad
    /\ loads' = [loads EXCEPT ![FreeLoad] = CalledLoad(caller)]
    /\ isLoadingLibrary' = IF showSpinner THEN TRUE ELSE isLoadingLibrary

\* loadLibrary(showSpinner) is called and not awaited
loadLibrary(showSpinner) == loadLibraryFor(showSpinner, 0)

\* generatePdf after its awaited loadLibrary() has returned (283-285, 288-290)
GenDone(g) ==
    /\ showDraftModal' = FALSE
    /\ selectedImages' = <<>>
    /\ isProcessing' = FALSE
    /\ gens' = [gens EXCEPT ![g] = IdleGen]
    /\ lastOp' = "generatePdf:done"
    /\ UNCHANGED <<pdfName, pick>>

\* loadLibrary call t returns: the caller that awaits it, if any, continues
LoadReturns(t, op) ==
    IF loads[t].by = 0
    THEN lastOp' = op /\ UNCHANGED draftVars
    ELSE GenDone(loads[t].by)

\* lines 135-137 and the finally block: the result is sorted and published.
\* applyFilter(searchQuery, sorted) of line 137 filters by the query of the render
\* the call was made in (loads[t].query); pdfs is a new array, so the effect of
\* 154-156 runs after the render and filters by the query on screen, which is the
\* value that stays
LoadPublish(t, docs, threw) ==
    LET sorted == SortDocs(docs) IN
    /\ pdfs' = sorted
    /\ filteredPdfs' = applyFilter(searchQuery, sorted)
    /\ isLoadingLibrary' = FALSE
    /\ isRefreshing' = FALSE
    /\ loads' = [loads EXCEPT ![t] = IdleLoad]
    /\ lastLoad' = [outcome |-> "ok", files |-> loads[t].files, threw |-> threw]
    /\ LoadReturns(t, "loadLibrary:published")

\* readDirectoryAsync throws: the outer catch (138-139) and the finally block
LoadReadDirFails(t) ==
    /\ loads[t].pc = "readDir"
    /\ isLoadingLibrary' = FALSE
    /\ isRefreshing' = FALSE
    /\ loads' = [loads EXCEPT ![t] = IdleLoad]
    /\ lastLoad' = [outcome |-> "dirError", files |-> <<>>, threw |-> {}]
    /\ LoadReturns(t, "loadLibrary:catch")
    /\ UNCHANGED <<dir, now, pdfs, filteredPdfs, searchQuery, renVars, del, alert, setVars>>

\* readDirectoryAsync resolves (107-108); Promise.all of no file resolves at once
LoadReadDir(t) ==
    /\ loads[t].pc = "readDir"
    /\ LET files == PdfFilesOf(ReadDirectory(dir)) IN
       IF files = <<>>
       THEN LoadPublish(t, <<>>, {})
       ELSE /\ loads' = [loads EXCEPT ![t] =
                    [@ EXCEPT !.pc = "getInfo", !.files = files,
                              !.docs = [i \in 1..Len(files) |-> ErrorDoc(files[i])]]]
            /\ lastOp' = "loadLibrary:readDirectory"
            /\ UNCHANGED <<pdfs, filteredPdfs, isLoadingLibrary, isRefreshing, lastLoad,
                           draftVars>>
    /\ UNCHANGED <<dir, now, searchQuery, renVars, del, alert, setVars>>

\* the getInfoAsync of entry i settles (111-132), in any order among the entries;
\* when it is the last one, Promise.all resolves and the result is published
LoadGetInfo(t, i, throws) ==
    /\ loads[t].pc = "getInfo"
    /\ i \in (1..Len(loads[t].files)) \ loads[t].got
    /\ LET doc == IF throws THEN ErrorDoc(loads[t].files[i])
                  ELSE InfoDoc(loads[t].files[i], dir, now)
           docs == [loads[t].docs EXCEPT ![i] = doc]
           threw == IF throws THEN loads[t].threw \cup {i} ELSE loads[t].threw
       IN IF loads[t].got \cup {i} = 1..Len(loads[t].files)
          THEN LoadPublish(t, docs, threw)
          ELSE /\ loads' = [loads EXCEPT ![t] =
                       [@ EXCEPT !.got = @ \cup {i}, !.threw = threw, !.docs = docs]]
               /\ lastOp' = "loadLibrary:getInfo"
               /\ UNCHANGED <<pdfs, filteredPdfs, isLoadingLibrary, isRefreshing, lastLoad,
                              draftVars>>
    /\ UNCHANGED <<dir, now, searchQuery, renVars, del, alert, setVars>>

\* onRefresh, index.tsx:162-166: the pull-to-refresh of the list, which is rendered
\* when isLoadingLibrary is false (417-435)
onRefresh ==
    /\ ~isLoadingLibrary
    /\ ~isRefreshing
    /\ isRefreshing' = TRUE
    /\ loadLibrary(FALSE)
    /\ lastOp' = "onRefresh"
    /\ UNCHANGED <<dir, now, pdfs, filteredPdfs, searchQuery, lastLoad, renVars, del, alert, draftVars, setVars>>

\* time passes
Tick ==
    /\ now < MaxNow
    /\ now' = now + 1
    /\ lastOp' = "Tick"
    /\ UNCHANGED <<dir, libVars, renVars, del, alert, draftVars, setVars>>

\* onChangeText={setSearchQuery} of the search field (412-413), and the effect of
\* 154-156 that the new query triggers
setSearchQuery(text) ==
    /\ ~showDraftModal
    /\ ~isRenameModalVisible
    /\ del = <<>>
    /\ text # searchQuery
    /\ searchQuery' = text
    /\ filteredPdfs' = applyFilter(text, pdfs)
    /\ lastOp' = "setSearchQuery"
    /\ UNCHANGED <<dir, now, pdfs, isLoadingLibrary, isRefreshing, loads, lastLoad,
                   renVars, del, alert, draftVars, setVars>>

\* the data of the archive list of the alternate screen, computed at each render
\* from the query and the library (part_001:541)
ArchiveListData ==
    IF searchQuery # <<>> THEN FilterDocs(searchQuery, pdfs) ELSE pdfs

\* the document list is on screen and takes touches: no spinner in its place
\* (417-435), no modal and no confirmation alert above it
ListInteractive ==
    /\ ~isLoadingLibrary
    /\ ~isRenameModalVisible
    /\ ~showDraftModal
    /\ del = <<>>

-----------------------------------------------------------------------------
(* Rename: index.tsx:168-190 *)

\* startRename(item), from the rename button of a listed document (392)
startRename(k) ==
    /\ ListInteractive
    /\ k \in 1..Len(filteredPdfs)
    /\ renamingItem' = <<filteredPdfs[k]>>
    /\ newFileName' = Replace(filteredPdfs[k].name, DotPdf, <<>>)
    /\ isRenameModalVisible' = TRUE
    /\ lastOp' = "startRename"
    /\ UNCHANGED <<dir, now, libVars, ren, editVars, del, alert, draftVars, setVars>>

\* onChangeText={setNewFileName} of the rename dialog (452)
setNewFileName(text) ==
    /\ isRenameModalVisible
    /\ newFileName' = text
    /\ lastOp' = "setNewFileName"
    /\ UNCHANGED <<dir, now, libVars, isRenameModalVisible, renamingItem, ren, editVars, del, alert,
                   draftVars, setVars>>

\* Cancel of the rename dialog (456)
cancelRename ==
    /\ isRenameModalVisible
    /\ isRenameModalVisible' = FALSE
    /\ lastOp' = "cancelRename"
    /\ UNCHANGED <<dir, now, libVars, renamingItem, newFileName, ren, editVars, del, alert,
                   draftVars, setVars>>

\* mutant: the new name used as it was typed, without the extension
RenameTarget_NoExtension == Trim(newFileName)

\* `${docDir}${newFileName.trim() + '.pdf'}` (177-179), as a file name
RenameTarget == Trim(newFileName) \o DotPdf

\* line 175: the guard that lets confirmRename go on
RenameAccepted == renamingItem # <<>> /\ Trim(newFileName) # <<>>

\* Save with no item or a blank name: confirmRename returns at line 175
confirmRenameIgnored ==
    /\ isRenameModalVisible
    /\ ~RenameAccepted
    /\ lastOp' = "confirmRename:ignored"
    /\ UNCHANGED <<dir, now, libVars, renVars, del, alert, draftVars, setVars>>

\* Save: confirmRename up to the end of its copyAsync (174-182); a rejected copy goes
\* to the catch block (187-189)
confirmRename(throws) ==
    /\ isRenameModalVisible
    /\ RenameAccepted
    /\ ren.pc = "idle"
    /\ LET from == NameOfUri(renamingItem[1].uri)
           to == RenameTarget
       IN IF ~throws /\ CanCopy(dir, from, to)
          THEN /\ dir' = CopyFile(dir, from, to, now)
               /\ ren' = [pc |-> "delete", from |-> from, to |-> to]
               /\ alert' = alert
               /\ lastOp' = "confirmRename:copied"
          ELSE /\ dir' \in AfterFailedCopy(dir, from, to)
               /\ ren' = ren
               /\ alert' = [title |-> "Error", message |-> "Could not rename file."]
               /\ lastOp' = "confirmRename:catch"
    /\ UNCHANGED <<now, libVars, isRenameModalVisible, renamingItem, newFileName, editVars, del,
                   draftVars, setVars>>

\* confirmRename from the end of its deleteAsync (183-189)
confirmRenameDelete(throws) ==
    /\ ren.pc = "delete"
    /\ ren' = IdleRename
    /\ IF ~throws /\ Exists(dir, ren.from)
       THEN /\ dir' = RemoveFile(dir, ren.from)
            /\ isRenameModalVisible' = FALSE
            /\ loadLibrary(FALSE)
            /\ alert' = alert
            /\ lastOp' = "confirmRename:done"
       ELSE /\ alert' = [title |-> "Error", message |-> "Could not rename file."]
            /\ lastOp' = "confirmRename:catch"
            /\ UNCHANGED <<dir, isRenameModalVisible, loads, isLoadingLibrary>>
    /\ UNCHANGED <<now, pdfs, filteredPdfs, searchQuery, isRefreshing, lastLoad,
                   renamingItem, newFileName, editVars, del, draftVars, setVars>>

-----------------------------------------------------------------------------
(* Delete: index.tsx:192-210 *)

\* deletePdf(item), from a long press on a listed document (382): the alert opens
deletePdf(k) ==
    /\ ListInteractive
    /\ k \in 1..Len(filteredPdfs)
    /\ del' = <<filteredPdfs[k]>>
    /\ lastOp' = "deletePdf"
    /\ UNCHANGED <<dir, now, libVars, renVars, alert, draftVars, setVars>>

\* the alert's Cancel button (195)
deleteCancel ==
    /\ del # <<>>
    /\ del' = <<>>
    /\ lastOp' = "deletePdf:cancel"
    /\ UNCHANGED <<dir, now, libVars, renVars, alert, draftVars, setVars>>

\* a deleteAsync that rejects after it removed the file
AfterFailedDelete_Removed(d, name) == RemoveFile(d, name)

\* directory d after a deleteAsync of name that rejected: nothing is removed
AfterFailedDelete(d, name) == d

\* the alert's Delete button: onPress to the end of its deleteAsync (199-207)
deleteOnPress(throws) ==
    /\ del # <<>>
    /\ del' = <<>>
    /\ LET name == NameOfUri(del[1].uri) IN
       IF ~throws /\ Exists(dir, name)
       THEN /\ dir' = RemoveFile(dir, name)
            /\ loadLibrary(FALSE)
            /\ alert' = alert
            /\ lastOp' = "deletePdf:done"
       ELSE /\ alert' = [title |-> "Error", message |-> "Could not delete file."]
            /\ lastOp' = "deletePdf:catch"
            /\ dir' = AfterFailedDelete(dir, name)
            /\ UNCHANGED <<loads, isLoadingLibrary>>
    /\ UNCHANGED <<now, pdfs, filteredPdfs, searchQuery, isRefreshing, lastLoad,
                   renVars, draftVars, setVars>>

-----------------------------------------------------------------------------
(* In-place rename of the alternate library screen: src/unnamed/part_001:254-282 *)

\* the Rename File item of the context menu of listed document k (481-487)
startEditing(k) ==
    /\ ListInteractive
    /\ k \in 1..Len(pdfs)
    /\ editingId' = <<pdfs[k].id>>
    /\ editingValue' = Replace(pdfs[k].name, DotPdf, <<>>)
    /\ lastOp' = "startEditing"
    /\ UNCHANGED <<dir, now, libVars, isRenameModalVisible, renamingItem, newFileName, ren,
                   save, del, alert, draftVars, setVars>>

\* onChangeText={setEditingValue} of the in-place input (374)
setEditingValue(text) ==
    /\ editingId # <<>>
    /\ editingValue' = text
    /\ lastOp' = "setEditingValue"
    /\ UNCHANGED <<dir, now, libVars, isRenameModalVisible, renamingItem, newFileName, ren,
                   editingId, save, del, alert, draftVars, setVars>>

\* onBlur={() => setEditingId(null)} of the in-place input (378)
blurEditing ==
    /\ editingId # <<>>
    /\ editingId' = <<>>
    /\ lastOp' = "blurEditing"
    /\ UNCHANGED <<dir, now, libVars, isRenameModalVisible, renamingItem, newFileName, ren,
                   editingValue, save, del, alert, draftVars, setVars>>

\* mutant: the existence of the target never found
SaveTargetTaken_Never(d, to) == FALSE

\* info.exists of the getInfoAsync of the new uri (264-265)
SaveTargetTaken(d, to) == Exists(d, to)

\* the finally block of saveRename (278-281)
SaveEnds ==
    /\ editingId' = <<>>
    /\ save' = IdleSave

\* the catch and finally blocks of saveRename (275-281)
SaveFails ==
    /\ alert' = [title |-> "Rename Failed", message |-> "Could not rename the file."]
    /\ SaveEnds
    /\ lastOp' = "saveRename:catch"

\* onSubmitEditing of the input of the document in edit: saveRename(item) up to its
\* first await (254-264)
saveRename ==
    /\ editingId # <<>>
    /\ \E k \in 1..Len(pdfs) : pdfs[k].id = editingId[1]
    /\ save.pc = "idle"
    /\ LET item == pdfs[CHOOSE k \in 1..Len(pdfs) : pdfs[k].id = editingId[1]] IN
       IF Trim(editingValue) = <<>> \/ Trim(editingValue) = Replace(item.name, DotPdf, <<>>)
       THEN /\ editingId' = <<>>
            /\ save' = save
            /\ lastOp' = "saveRename:ignored"
       ELSE /\ save' = [pc |-> "getInfo", from |-> NameOfUri(item.uri),
                        to |-> Trim(editingValue) \o DotPdf]
            /\ editingId' = editingId
            /\ lastOp' = "saveRename"
    /\ UNCHANGED <<dir, now, libVars, isRenameModalVisible, renamingItem, newFileName, ren,
                   editingValue, del, alert, draftVars, setVars>>

\* saveRename from the end of its getInfoAsync to its copyAsync (264-270)
SaveGetInfo(throws) ==
    /\ save.pc = "getInfo"
    /\ IF throws
       THEN SaveFails
       ELSE IF SaveTargetTaken(dir, save.to)
       THEN /\ alert' = [title |-> "Error",
                         message |-> "A file with this name already exists."]
            /\ SaveEnds
            /\ lastOp' = "saveRename:exists"
       ELSE /\ save' = [save EXCEPT !.pc = "copy"]
            /\ lastOp' = "saveRename:free"
            /\ UNCHANGED <<alert, editingId>>
    /\ UNCHANGED <<dir, now, libVars, isRenameModalVisible, renamingItem, newFileName, ren,
                   editingValue, del, draftVars, setVars>>

\* saveRename from the end of its copyAsync to its deleteAsync (270-271)
SaveCopy(throws) ==
    /\ save.pc = "copy"
    /\ IF ~throws /\ CanCopy(dir, save.from, save.to)
       THEN /\ dir' = CopyFile(dir, save.from, save.to, now)
            /\ save' = [save EXCEPT !.pc = "delete"]
            /\ lastOp' = "saveRename:copied"
            /\ UNCHANGED <<alert, editingId>>
       ELSE /\ dir' \in AfterFailedCopy(dir, save.from, save.to)
            /\ SaveFails
    /\ UNCHANGED <<now, libVars, isRenameModalVisible, renamingItem, newFileName, ren,
                   editingValue, del, draftVars, setVars>>

\* saveRename from the end of its deleteAsync (271-281)
SaveDelete(throws) ==
    /\ save.pc = "delete"
    /\ IF ~throws /\ Exists(dir, save.from)
       THEN /\ dir' = RemoveFile(dir, save.from)
            /\ loadLibrary(TRUE)
            /\ SaveEnds
            /\ alert' = alert
            /\ lastOp' = "saveRename:done"
       ELSE /\ SaveFails
            /\ UNCHANGED <<dir, loads, isLoadingLibrary>>
    /\ UNCHANGED <<now, pdfs, filteredPdfs, searchQuery, isRefreshing, lastLoad,
                   isRenameModalVisible, renamingItem, newFileName, ren, editingValue, del,
                   draftVars, setVars>>

-----------------------------------------------------------------------------
(* Document creation: index.tsx:212-291 *)

GenIds == DOMAIN gens

HasFreeGen == \E g \in GenIds : gens[g].pc = "idle"

FreeGen == CHOOSE g \in GenIds : gens[g].pc = "idle"

\* the draft modal is on screen and takes touches: the system picker, which covers
\* the app, is not open
DraftInteractive == showDraftModal /\ pick.pc = "idle"

\* the add button of the library (437-442) is on screen and takes touches
FabInteractive ==
    /\ ~showDraftModal
    /\ ~isRenameModalVisible
    /\ del = <<>>
    /\ pick.pc = "idle"

\* the decimal digits of a number, as a template literal prints it
DecimalDigit(d) == <<"0", "1", "2", "3", "4", "5", "6", "7", "8", "9">>[d + 1]

RECURSIVE Digits(_)
Digits(n) ==
    IF n < 10 THEN <<DecimalDigit(n)>>
    ELSE Digits(n \div 10) \o <<DecimalDigit(n % 10)>>

\* `Doc_${now.getHours()}${now.getMinutes()}${now.getSeconds()}` (231-232)
DateStr(clock) ==
    <<"D", "o", "c", "_">> \o Digits((clock \div 3600) % 24)
        \o Digits((clock \div 60) % 60) \o Digits(clock % 60)

\* the characters the class [a-z0-9_\-] matches under the flag i
NameChars ==
    { "a", "b", "c", "d", "e", "f", "g", "h", "i", "j", "k", "l", "m", "n", "o", "p",
      "q", "r", "s", "t", "u", "v", "w", "x", "y", "z",
      "A", "B", "C", "D", "E", "F", "G", "H", "I", "J", "K", "L", "M", "N", "O", "P",
      "Q", "R", "S", "T", "U", "V", "W", "X", "Y", "Z",
      "0", "1", "2", "3", "4", "5", "6", "7", "8", "9", "_", "-" }

\* pdfName.replace(/[^a-z0-9_\-]/gi, '_') || 'Doc' (278)
CleanName(name) ==
    LET replaced == [i \in 1..Len(name) |-> IF name[i] \in NameChars THEN name[i] ELSE "_"]
    IN IF replaced = <<>> THEN <<"D", "o", "c">> ELSE replaced

\* `${cleanName}.pdf` (279)
FinalName(name) == CleanName(name) \o DotPdf

\* `data:image/jpeg;base64,${base64}` (261), base64 standing for the image at uri
DataUri(uri) == <<"data:image/jpeg;base64,", uri>>

\* mutant: the encoded images collected in the order their reads complete
StorePage_CompletionOrder(pages, i, page) ==
    [pages EXCEPT ![Cardinality({k \in 1..Len(pages) : pages[k] # <<>>}) + 1] = page]

\* Promise.all (258-263): the value of the i-th promise is the i-th element
StorePage(pages, i, page) == [pages EXCEPT ![i] = page]

\* the file printToFileAsync renders from the html (265-276): one page per image
PrintedFile(name, pages, clock) ==
    [name |-> name, size |-> Len(pages), mtime |-> clock, content |-> pages]

\* pickImages(isAppending) up to its first await (212-213)
pickImages(isAppending) ==
    /\ IF isAppending THEN DraftInteractive ELSE FabInteractive
    /\ pick' = [pc |-> "permission", isAppending |-> isAppending]
    /\ lastOp' = "pickImages"
    /\ UNCHANGED <<dir, now, libVars, renVars, del, alert, selectedImages, isProcessing,
                   showDraftModal, pdfName, gens, setVars>>

\* a pickImages that goes on to the picker whatever the permission is
PickAfterPermission_Launches(p, granted) == [p EXCEPT !.pc = "picker"]

\* where pickImages is after requestMediaLibraryPermissionsAsync: at the picker if
\* status is 'granted', returned otherwise (213-219)
PickAfterPermission(p, granted) ==
    IF granted THEN [p EXCEPT !.pc = "picker"] ELSE IdlePick

\* an append that stores the picked images alone
ImagesAfterPick_Replace(images, isAppending, uris) == uris

\* selectedImages after the picker returned uris: prev => [...prev, ...uris] when
\* appending, uris otherwise (index.tsx:226-230, part_001:195-199)
ImagesAfterPick(images, isAppending, uris) ==
    IF isAppending THEN images \o uris ELSE uris

\* pickImages from the end of requestMediaLibraryPermissionsAsync (213-219)
PickPermission(granted) ==
    /\ pick.pc = "permission"
    /\ pick' = PickAfterPermission(pick, granted)
    /\ IF granted
       THEN /\ alert' = alert
            /\ lastOp' = "pickImages:granted"
       ELSE /\ alert' = [title |-> "Permission needed",
                         message |-> "Access to photos is required."]
            /\ lastOp' = "pickImages:denied"
    /\ UNCHANGED <<dir, now, libVars, renVars, del, selectedImages, isProcessing,
                   showDraftModal, pdfName, gens, setVars>>

\* pickImages from the end of launchImageLibraryAsync (219-236)
PickResult(canceled, uris) ==
    /\ pick.pc = "picker"
    /\ pick' = IdlePick
    /\ IF canceled
       THEN /\ lastOp' = "pickImages:canceled"
            /\ UNCHANGED <<selectedImages, pdfName, showDraftModal>>
       ELSE IF pick.isAppending
       THEN /\ Len(selectedImages) + Len(uris) <= MaxImages
            /\ selectedImages' = ImagesAfterPick(selectedImages, TRUE, uris)
            /\ lastOp' = "pickImages:appended"
            /\ UNCHANGED <<pdfName, showDraftModal>>
       ELSE /\ selectedImages' = ImagesAfterPick(selectedImages, FALSE, uris)
            /\ pdfName' = DateStr(now)
            /\ showDraftModal' = TRUE
            /\ lastOp' = "pickImages:started"
    /\ UNCHANGED <<dir, now, libVars, renVars, del, alert, isProcessing, gens, setVars>>

\* onChangeText={setPdfName} of the draft (497)
setPdfName(text) ==
    /\ DraftInteractive
    /\ pdfName' = text
    /\ lastOp' = "setPdfName"
    /\ UNCHANGED <<dir, now, libVars, renVars, del, alert, selectedImages, isProcessing,
                   showDraftModal, gens, pick, setVars>>

\* a removal that drops the last image whatever the index is
WithoutIndex_Last(images, index) == SubSeq(images, 1, Len(images) - 1)

\* selectedImages.filter((_, i) => i !== index), index counted from 0
\* (index.tsx:240, part_001:324)
WithoutIndex(images, index) ==
    IF index \in 0..(Len(images) - 1)
    THEN [i \in 1..(Len(images) - 1) |-> IF i <= index THEN images[i] ELSE images[i + 1]]
    ELSE images

\* a removal that leaves the draft modal as it is
ModalAfterRemove_Kept(newImages, shown) == shown

\* showDraftModal after if (newImages.length === 0) setShowDraftModal(false) (242)
ModalAfterRemove(newImages, shown) ==
    IF Len(newImages) = 0 THEN FALSE ELSE shown

\* removeImage(index), from the remove button of the thumbnail at index
\* (index.tsx:239-244, 357-360)
removeImage(index) ==
    /\ DraftInteractive
    /\ index \in 0..(Len(selectedImages) - 1)
    /\ LET newImages == WithoutIndex(selectedImages, index) IN
       /\ selectedImages' = newImages
       /\ showDraftModal' = ModalAfterRemove(newImages, showDraftModal)
    /\ lastOp' = "removeImage"
    /\ UNCHANGED <<dir, now, libVars, renVars, del, alert, isProcessing, pdfName, gens,
                   pick, setVars>>

\* the remove button of the thumbnail at index in the alternate screen:
\* setSelectedImages(prev => prev.filter((_, i) => i !== index)) (part_001:324)
removeOnPress(index) ==
    /\ DraftInteractive
    /\ index \in 0..(Len(selectedImages) - 1)
    /\ selectedImages' = WithoutIndex(selectedImages, index)
    /\ lastOp' = "removeOnPress"
    /\ UNCHANGED <<dir, now, libVars, renVars, del, alert, isProcessing, showDraftModal,
                   pdfName, gens, pick, setVars>>

\* what JavaScript reads at an index of an array that holds no element
Undefined == "undefined"

\* images[i], i counted from 0
ElementAt(images, i) ==
    IF i \in 0..(Len(images) - 1) THEN images[i + 1] ELSE Undefined

\* the elements of the array after images[i] = v: an index past the end lengthens
\* the array, the positions in between reading undefined; a negative index names a
\* property of the array object and none of its elements
StoreAt(images, i, v) ==
    IF i < 0 THEN images
    ELSE IF i < Len(images) THEN [images EXCEPT ![i + 1] = v]
    ELSE [k \in 1..(i + 1) |->
             IF k <= Len(images) THEN images[k]
             ELSE IF k = i + 1 THEN v ELSE Undefined]

\* an exchange that stores the first element before it reads the second
Swapped_Sequential(images, fromIdx, toIdx) ==
    LET stored == StoreAt(images, fromIdx, ElementAt(images, toIdx))
    IN  StoreAt(stored, toIdx, ElementAt(stored, fromIdx))

\* [newImages[fromIdx], newImages[toIdx]] = [newImages[toIdx], newImages[fromIdx]]
\* on a copy of the array (index.tsx:248-249, part_001:249-250): both elements are
\* read, then stored
Swapped(images, fromIdx, toIdx) ==
    LET first == ElementAt(images, toIdx)
        second == ElementAt(images, fromIdx)
    IN  StoreAt(StoreAt(images, fromIdx, first), toIdx, second)

\* the condition of the early return of swapImages (index.tsx:247)
SwapReturns(images, fromIdx, toIdx) ==
    \/ fromIdx = toIdx
    \/ fromIdx < 0
    \/ toIdx < 0
    \/ fromIdx >= Len(images)
    \/ toIdx >= Len(images)

\* selectedImages after swapImages(fromIdx, toIdx) of the alternate screen, which
\* has no early return (part_001:248-252)
ImagesAfterSwap_Unguarded(images, fromIdx, toIdx) == Swapped(images, fromIdx, toIdx)

\* a swapImages that exchanges whatever the indices are
ImagesAfterSwap_NoReturn(images, fromIdx, toIdx) == Swapped(images, fromIdx, toIdx)

\* selectedImages after swapImages(fromIdx, toIdx) (index.tsx:246-252)
ImagesAfterSwap(images, fromIdx, toIdx) ==
    IF SwapReturns(images, fromIdx, toIdx)
    THEN images
    ELSE Swapped(images, fromIdx, toIdx)

\* swapImages(fromIdx, toIdx) (index.tsx:246-252), indices counted from 0
swapImages(fromIdx, toIdx) ==
    /\ DraftInteractive
    /\ selectedImages' = ImagesAfterSwap(selectedImages, fromIdx, toIdx)
    /\ lastOp' = IF SwapReturns(selectedImages, fromIdx, toIdx)
                 THEN "swapImages:return"
                 ELSE "swapImages"
    /\ UNCHANGED <<dir, now, libVars, renVars, del, alert, isProcessing, showDraftModal,
                   pdfName, gens, pick, setVars>>

\* Math.round(num / den) for den > 0: the nearest integer, a half rounding up
MathRound(num, den) == (2 * num + den) \div (2 * den)

MathMax(a, b) == IF a >= b THEN a ELSE b

MathMin(a, b) == IF a <= b THEN a ELSE b

\* colShift and rowShift of the end of a drag (index.tsx:335-336, part_001:309-310)
ColShift(translationX) == MathRound(translationX, ColPitch)

RowShift(translationY) == MathRound(translationY, RowPitch)

\* a target that is not clamped to the draft
TargetIndex_Unclamped(index, total, translationX, translationY) ==
    index + (ColShift(translationX) + (RowShift(translationY) * 2))

\* targetIndex of the end of a drag of thumbnail index in a draft of total images
\* (index.tsx:337-338, part_001:311-312)
TargetIndex(index, total, translationX, translationY) ==
    LET indexShift == ColShift(translationX) + (RowShift(translationY) * 2)
    IN  MathMax(0, MathMin(total - 1, index + indexShift))

\* the end of the drag calls swapImages (index.tsx:340, part_001:313)
DragSwaps(index, total, translationX, translationY) ==
    TargetIndex(index, total, translationX, translationY) # index

\* selectedImages after the end of a drag (index.tsx:334-342)
ImagesAfterDrag(images, index, translationX, translationY) ==
    IF DragSwaps(index, Len(images), translationX, translationY)
    THEN ImagesAfterSwap(images, index,
                         TargetIndex(index, Len(images), translationX, translationY))
    ELSE images

\* selectedImages after the end of a drag in the alternate screen (part_001:308-313)
ImagesAfterDrag_Unguarded(images, index, translationX, translationY) ==
    IF DragSwaps(index, Len(images), translationX, translationY)
    THEN ImagesAfterSwap_Unguarded(images, index,
                         TargetIndex(index, Len(images), translationX, translationY))
    ELSE images

\* the end of a drag of the thumbnail at index, moved by (translationX,
\* translationY): swapImages is called for a target other than the dragged
\* thumbnail (index.tsx:334-347)
dragEnd(index, translationX, translationY) ==
    /\ DraftInteractive
    /\ index \in 0..(Len(selectedImages) - 1)
    /\ IF DragSwaps(index, Len(selectedImages), translationX, translationY)
       THEN swapImages(index, TargetIndex(index, Len(selectedImages),
                                          translationX, translationY))
       ELSE /\ lastOp' = "dragEnd"
            /\ UNCHANGED <<dir, now, libVars, renVars, del, alert, draftVars, setVars>>

\* swapImages(fromIdx, toIdx) of the alternate screen (part_001:248-252)
swapImagesUnguarded(fromIdx, toIdx) ==
    /\ DraftInteractive
    /\ selectedImages' = ImagesAfterSwap_Unguarded(selectedImages, fromIdx, toIdx)
    /\ lastOp' = "swapImages:unguarded"
    /\ UNCHANGED <<dir, now, libVars, renVars, del, alert, isProcessing, showDraftModal,
                   pdfName, gens, pick, setVars>>

\* the end of a drag in the alternate screen (part_001:308-317)
dragEndUnguarded(index, translationX, translationY) ==
    /\ DraftInteractive
    /\ index \in 0..(Len(selectedImages) - 1)
    /\ IF DragSwaps(index, Len(selectedImages), translationX, translationY)
       THEN swapImagesUnguarded(index, TargetIndex(index, Len(selectedImages),
                                                   translationX, translationY))
       ELSE /\ lastOp' = "dragEnd:unguarded"
            /\ UNCHANGED <<dir, now, libVars, renVars, del, alert, draftVars, setVars>>

\* Cancel of the draft: () => !isProcessing && setShowDraftModal(false) (473)
cancelDraft ==
    /\ DraftInteractive
    /\ showDraftModal' = IF ~isProcessing THEN FALSE ELSE showDraftModal
    /\ lastOp' = IF ~isProcessing THEN "cancelDraft" ELSE "cancelDraft:ignored"
    /\ UNCHANGED <<dir, now, libVars, renVars, del, alert, selectedImages, isProcessing,
                   pdfName, gens, pick, setVars>>

\* mutant: the Generate button rendered whatever isProcessing is
GenerateAvailable_Always == DraftInteractive

\* the footer shows the Generate button only when isProcessing is false (524-540)
GenerateAvailable == DraftInteractive /\ ~isProcessing

\* Generate: generatePdf up to its first await (254-263); it closes over the
\* selectedImages and pdfName of the render it was created in and issues every read
generatePdf ==
    /\ GenerateAvailable
    /\ IF selectedImages = <<>>
       THEN /\ lastOp' = "generatePdf:ignored"
            /\ UNCHANGED <<isProcessing, gens>>
       ELSE /\ HasFreeGen
            /\ isProcessing' = TRUE
            /\ gens' = [gens EXCEPT ![FreeGen] =
                   [pc |-> "read", images |-> selectedImages, name |-> pdfName,
                    order |-> <<>>,
                    pages |-> [i \in 1..Len(selectedImages) |-> <<>>]]]
            /\ lastOp' = "generatePdf"
    /\ UNCHANGED <<dir, now, libVars, renVars, del, alert, selectedImages, showDraftModal,
                   pdfName, pick, setVars>>

\* a generatePdf without its finally block
GenFails_NoFinally(g) ==
    /\ alert' = [title |-> "Failed", message |-> "error.message"]
    /\ isProcessing' = isProcessing
    /\ gens' = [gens EXCEPT ![g] = IdleGen]
    /\ lastOp' = "generatePdf:catch"

\* an awaited call of generatePdf rejects: the catch and finally blocks (286-290)
GenFails(g) ==
    /\ alert' = [title |-> "Failed", message |-> "error.message"]
    /\ isProcessing' = FALSE
    /\ gens' = [gens EXCEPT ![g] = IdleGen]
    /\ lastOp' = "generatePdf:catch"

\* the readAsStringAsync of image i settles (259-262), in any order among the images;
\* after the last one Promise.all resolves and printToFileAsync is called (265-276)
GenRead(g, i, throws) ==
    /\ gens[g].pc = "read"
    /\ i \in (1..Len(gens[g].images)) \ Range(gens[g].order)
    /\ IF throws
       THEN GenFails(g)
       ELSE /\ gens' = [gens EXCEPT ![g] =
                   [@ EXCEPT !.pages = StorePage(@, i, DataUri(gens[g].images[i])),
                             !.order = Append(@, i),
                             !.pc = IF Len(gens[g].order) + 1 = Len(gens[g].images)
                                    THEN "print" ELSE "read"]]
            /\ lastOp' = "generatePdf:read"
            /\ UNCHANGED <<alert, isProcessing>>
    /\ UNCHANGED <<dir, now, libVars, renVars, del, selectedImages, showDraftModal,
                   pdfName, pick, setVars>>

\* generatePdf from the end of printToFileAsync to its copyAsync (276-280)
GenPrint(g, throws) ==
    /\ gens[g].pc = "print"
    /\ IF throws
       THEN GenFails(g)
       ELSE /\ gens' = [gens EXCEPT ![g] = [@ EXCEPT !.pc = "copy"]]
            /\ lastOp' = "generatePdf:printed"
            /\ UNCHANGED <<alert, isProcessing>>
    /\ UNCHANGED <<dir, now, libVars, renVars, del, selectedImages, showDraftModal,
                   pdfName, pick, setVars>>

\* generatePdf from the end of copyAsync to its awaited loadLibrary() (280-282)
GenCopy(g, throws) ==
    /\ gens[g].pc = "copy"
    /\ IF throws
       THEN /\ GenFails(g)
            /\ UNCHANGED <<dir, loads, isLoadingLibrary>>
       ELSE /\ dir' = PutFile(dir, PrintedFile(FinalName(gens[g].name), gens[g].pages, now))
            /\ loadLibraryFor(TRUE, g)
            /\ gens' = [gens EXCEPT ![g] = [@ EXCEPT !.pc = "load"]]
            /\ lastOp' = "generatePdf:copied"
            /\ UNCHANGED <<alert, isProcessing>>
    /\ UNCHANGED <<now, pdfs, filteredPdfs, searchQuery, isRefreshing, lastLoad, renVars,
                   del, selectedImages, showDraftModal, pdfName, pick, setVars>>

-----------------------------------------------------------------------------
(* The settings screen: explore.tsx:22-72 *)

\* the slots for calculateStorage calls in flight: a call that finds none free waits
CalcIds == DOMAIN calcs

HasFreeCalc == \E c \in CalcIds : calcs[c].pc = "idle"

FreeCalc == CHOOSE c \in CalcIds : calcs[c].pc = "idle"

\* calculateStorage() is called (22-27); nothing makes a call wait for an earlier one
calculateStorage(caller) ==
    /\ HasFreeCalc
    /\ calcs' = [calcs EXCEPT ![FreeCalc] = [IdleCalc EXCEPT !.pc = "readDir", !.caller = caller]]

\* mutant: a calculateStorage that ends without its setStorageSize
CalcEnds_NoSize(c, total, threw) ==
    /\ calcs' = [calcs EXCEPT ![c] = IdleCalc]
    /\ storageSize' = storageSize

\* the last statement of calculateStorage (36), or its catch block (37-39)
CalcEnds(c, total, threw) ==
    /\ calcs' = [calcs EXCEPT ![c] = IdleCalc]
    /\ storageSize' = IF threw THEN storageSize ELSE SizeText(total)

\* calculateStorage from the end of its readDirectoryAsync (27-31)
CalcReadDir(c, throws) ==
    /\ calcs[c].pc = "readDir"
    /\ IF throws
       THEN /\ CalcEnds(c, 0, TRUE)
            /\ docCount' = docCount
            /\ lastOp' = "calculateStorage:catch"
       ELSE LET found == PdfFilesOf(ReadDirectory(dir)) IN
            /\ docCount' = Len(found)
            /\ IF found = <<>>
               THEN /\ CalcEnds(c, 0, FALSE)
                    /\ lastOp' = "calculateStorage:done"
               ELSE /\ calcs' = [calcs EXCEPT ![c] = [@ EXCEPT !.pc = "getInfo", !.files = found,
                                                               !.total = 0]]
                    /\ storageSize' = storageSize
                    /\ lastOp' = "calculateStorage:readDirectory"
    /\ UNCHANGED <<dir, now, libVars, renVars, del, alert, draftVars, clear>>

\* calculateStorage from the end of the getInfoAsync of its next file (32-36)
CalcGetInfo(c, throws) ==
    /\ calcs[c].pc = "getInfo"
    /\ LET file == Head(calcs[c].files)
           total == IF Exists(dir, file) THEN calcs[c].total + FileNamed(dir, file).size
                    ELSE calcs[c].total
       IN IF throws
          THEN /\ CalcEnds(c, 0, TRUE)
               /\ lastOp' = "calculateStorage:catch"
          ELSE IF Tail(calcs[c].files) = <<>>
          THEN /\ CalcEnds(c, total, FALSE)
               /\ lastOp' = "calculateStorage:done"
          ELSE /\ calcs' = [calcs EXCEPT ![c] = [@ EXCEPT !.files = Tail(@), !.total = total]]
               /\ storageSize' = storageSize
               /\ lastOp' = "calculateStorage:getInfo"
    /\ UNCHANGED <<dir, now, libVars, renVars, del, alert, draftVars, clear, docCount>>

\* handleClearLibrary (46-72): the confirmation alert opens
handleClearLibrary ==
    /\ clear.pc = "idle"
    /\ clear' = [IdleClear EXCEPT !.pc = "confirm"]
    /\ lastOp' = "handleClearLibrary"
    /\ UNCHANGED <<dir, now, libVars, renVars, del, alert, draftVars,
                   storageSize, docCount, calcs>>

\* the alert's Cancel button (52)
clearCancel ==
    /\ clear.pc = "confirm"
    /\ clear' = IdleClear
    /\ lastOp' = "handleClearLibrary:cancel"
    /\ UNCHANGED <<dir, now, libVars, renVars, del, alert, draftVars,
                   storageSize, docCount, calcs>>

\* the alert's Delete All button: onPress up to its readDirectoryAsync (56-59)
clearOnPress ==
    /\ clear.pc = "confirm"
    /\ clear' = [IdleClear EXCEPT !.pc = "readDir"]
    /\ lastOp' = "handleClearLibrary:onPress"
    /\ UNCHANGED <<dir, now, libVars, renVars, del, alert, draftVars,
                   storageSize, docCount, calcs>>

\* lines 65-67: the loop is over, the statistics are recomputed, success is announced
ClearEnds ==
    /\ clear' = IdleClear
    /\ calculateStorage("clear")
    /\ alert' = [title |-> "Success", message |-> "Library has been cleared."]
    /\ lastOp' = "handleClearLibrary:done"

\* a platform call of the handler rejects: nothing catches it, the handler stops
ClearThrows ==
    /\ clear' = IdleClear
    /\ lastOp' = "handleClearLibrary:rejected"
    /\ UNCHANGED <<dir, calcs, alert>>

\* onPress from the end of its readDirectoryAsync (59-61)
ClearReadDir(throws) ==
    /\ clear.pc = "readDir"
    /\ IF throws THEN ClearThrows
       ELSE LET found == PdfFilesOf(ReadDirectory(dir)) IN
            IF found = <<>>
            THEN ClearEnds /\ dir' = dir
            ELSE /\ clear' = [pc |-> "delete", files |-> found]
                 /\ lastOp' = "handleClearLibrary:readDirectory"
                 /\ UNCHANGED <<dir, calcs, alert>>
    /\ UNCHANGED <<now, libVars, renVars, del, draftVars, storageSize, docCount>>

\* onPress from the end of the deleteAsync of its next file (60-67)
ClearDelete(throws) ==
    /\ clear.pc = "delete"
    /\ LET file == Head(clear.files) IN
       IF throws \/ ~Exists(dir, file) THEN ClearThrows
       ELSE IF Tail(clear.files) = <<>>
       THEN ClearEnds /\ dir' = RemoveFile(dir, file)
       ELSE /\ dir' = RemoveFile(dir, file)
            /\ clear' = [clear EXCEPT !.files = Tail(clear.files)]
            /\ lastOp' = "handleClearLibrary:delete"
            /\ UNCHANGED <<calcs, alert>>
    /\ UNCHANGED <<now, libVars, renVars, del, draftVars, storageSize, docCount>>

-----------------------------------------------------------------------------
(* The library over every small directory: loadLibrary and onRefresh alone *)

LoadNames ==
    { <<"a", ".", "p", "d", "f">>,            \* a.pdf
      <<"B", ".", "P", "D", "F">>,            \* B.PDF
      <<"c", ".", "p", "d", "f", "x">> }      \* c.pdfx

FileSizes == {0, 6000}

InitialFiles ==
    [name : LoadNames, size : FileSizes, mtime : 0..StartNow, content : {<< <<"a">> >>, << <<"B">> >>, << <<"c">> >>}]

InitialDirs ==
    { d \in UNION { [1..n -> InitialFiles] : n \in 0..MaxFiles } :
        /\ \A i, j \in 1..Len(d) : i # j => d[i].name # d[j].name
        /\ \A i \in 1..Len(d) : d[i].content = ContentOf(d[i].name) }

\* the state after mount: the effect of lines 158-160 has called loadLibrary()
LibInit(slots) ==
    /\ now = StartNow
    /\ pdfs = <<>>
    /\ filteredPdfs = <<>>
    /\ searchQuery = <<>>
    /\ isLoadingLibrary = TRUE
    /\ isRefreshing = FALSE
    /\ loads = [t \in 1..slots |-> IF t = 1 THEN [IdleLoad EXCEPT !.pc = "readDir"] ELSE IdleLoad]
    /\ lastLoad = [outcome |-> "none", files |-> <<>>, threw |-> {}]
    /\ isRenameModalVisible = FALSE
    /\ renamingItem = <<>>
    /\ newFileName = <<>>
    /\ ren = IdleRename
    /\ editingId = <<>>
    /\ editingValue = <<>>
    /\ save = IdleSave
    /\ del = <<>>
    /\ alert = NoAlert
    /\ selectedImages = <<>>
    /\ isProcessing = FALSE
    /\ showDraftModal = FALSE
    /\ pdfName = <<>>
    /\ gens = [g \in 1..MaxGens |-> IdleGen]
    /\ pick = IdlePick
    /\ storageSize = ZeroMB
    /\ docCount = 0
    /\ clear = IdleClear
    /\ lastOp = "mount"

InitLoad ==
    /\ dir \in InitialDirs
    /\ LibInit(1)
    /\ calcs = IdleCalcs

LoadStep ==
    \/ \E t \in LoadIds : LoadReadDir(t)
    \/ \E t \in LoadIds : LoadReadDirFails(t)
    \/ \E t \in LoadIds : \E i \in 1..Len(loads[t].files), throws \in BOOLEAN :
           LoadGetInfo(t, i, throws)

NextLoad ==
    \/ LoadStep
    \/ onRefresh
    \/ Tick

SpecLoad == InitLoad /\ [][NextLoad]_vars

-----------------------------------------------------------------------------
(* Searching the library while it is loaded and refreshed, every metadata read
   succeeding *)

\* a.pdf then B.PDF
SearchDir ==
    << [name |-> <<"a", ".", "p", "d", "f">>, size |-> 6000, mtime |-> 1,
        content |-> ContentOf(<<"a", ".", "p", "d", "f">>)],
       [name |-> <<"B", ".", "P", "D", "F">>, size |-> 0, mtime |-> 2,
        content |-> ContentOf(<<"B", ".", "P", "D", "F">>)] >>

\* what is typed into the search field
SearchQueries == { <<>>, <<"A">>, <<"b">>, <<"p", "d">>, <<"x">> }

InitSearch ==
    /\ dir = SearchDir
    /\ LibInit(MaxLoads)
    /\ calcs = IdleCalcs

NextSearch ==
    \/ (\E t \in LoadIds : LoadReadDir(t))
    \/ (\E t \in LoadIds : \E i \in 1..Len(loads[t].files) : LoadGetInfo(t, i, FALSE))
    \/ onRefresh
    \/ \E text \in SearchQueries : setSearchQuery(text)

SpecSearch == InitSearch /\ [][NextSearch]_vars

-----------------------------------------------------------------------------
(* The library screen over one directory: refresh, rename and delete interleaved *)

\* what the user may type into the rename dialog
TypedNames == { <<" ", "b">>, <<" ">> }

\* a.pdf, then the newer b.pdf
LibDir ==
    << [name |-> <<"a", ".", "p", "d", "f">>, size |-> 6000, mtime |-> 1,
        content |-> << <<"a">> >>],
       [name |-> <<"b", ".", "p", "d", "f">>, size |-> 0, mtime |-> 2,
        content |-> << <<"b">> >>] >>

Init ==
    /\ dir = LibDir
    /\ LibInit(1)
    /\ calcs = IdleCalcs

RenameStep ==
    \/ \E k \in 1..MaxFiles : startRename(k)
    \/ \E text \in TypedNames : setNewFileName(text)
    \/ cancelRename
    \/ confirmRenameIgnored
    \/ \E throws \in BOOLEAN : confirmRename(throws)
    \/ \E throws \in BOOLEAN : confirmRenameDelete(throws)

DeleteStep ==
    \/ \E k \in 1..MaxFiles : deletePdf(k)
    \/ deleteCancel
    \/ \E throws \in BOOLEAN : deleteOnPress(throws)

\* the steps of loadLibrary when every getInfoAsync resolves
LoadStepInfoOk ==
    \/ \E t \in LoadIds : LoadReadDir(t)
    \/ \E t \in LoadIds : \E i \in 1..Len(loads[t].files) : LoadGetInfo(t, i, FALSE)

\* one loadLibrary call at a time, the clock standing still
Next ==
    \/ LoadStepInfoOk
    \/ \E t \in LoadIds : LoadReadDirFails(t)
    \/ onRefresh
    \/ RenameStep
    \/ DeleteStep

Spec == Init /\ [][Next]_vars

-----------------------------------------------------------------------------
(* Rename alone, the directory listing never failing: a name that is free at first
   and a blank name *)

RenameNames == { <<"c">>, <<" ">>, <<>> }

NextRename ==
    \/ LoadStepInfoOk
    \/ \E k \in 1..MaxFiles : startRename(k)
    \/ \E text \in RenameNames : setNewFileName(text)
    \/ cancelRename
    \/ confirmRenameIgnored
    \/ \E throws \in BOOLEAN : confirmRename(throws)
    \/ \E throws \in BOOLEAN : confirmRenameDelete(throws)

SpecRename == Init /\ [][NextRename]_vars

-----------------------------------------------------------------------------
(* The in-place rename alone, the directory listing never failing: a taken name and a
   name that is free at first *)

SaveNames == { <<" ", "b">>, <<"c">> }

NextSave ==
    \/ LoadStepInfoOk
    \/ \E k \in 1..MaxFiles : startEditing(k)
    \/ \E text \in SaveNames : setEditingValue(text)
    \/ blurEditing
    \/ saveRename
    \/ \E throws \in BOOLEAN : SaveGetInfo(throws)
    \/ \E throws \in BOOLEAN : SaveCopy(throws)
    \/ \E throws \in BOOLEAN : SaveDelete(throws)

SpecSave == Init /\ [][NextSave]_vars

-----------------------------------------------------------------------------
(* Delete alone while time passes, one loadLibrary call at a time, every directory
   listing and metadata read succeeding *)

\* a.pdf, for which no modification time is reported, then b.pdf
DeleteDir == << [LibDir[1] EXCEPT !.mtime = 0], LibDir[2] >>

InitDelete ==
    /\ dir = DeleteDir
    /\ LibInit(1)
    /\ calcs = IdleCalcs

NextDelete ==
    \/ LoadStepInfoOk
    \/ DeleteStep
    \/ Tick

SpecDelete == InitDelete /\ [][NextDelete]_vars

-----------------------------------------------------------------------------
(* Reordering an open draft: swapImages applied to every draft and pair of indices *)

MaxSwapLen == 3        \* most images of a draft that is reordered

SwapAssets == { "A", "B", "C" }

\* the drafts of at most MaxSwapLen images; the picker may return an image twice
SwapDrafts == UNION { [1..n -> SwapAssets] : n \in 0..MaxSwapLen }

\* the indices swapImages is called with: one before the first, every position of
\* the longest draft, one past its end
SwapIndices == (0 - 1)..MaxSwapLen

\* the library is loaded and empty, and a draft is on screen unless it is empty
InitSwap ==
    /\ dir = <<>>
    /\ now = StartNow
    /\ pdfs = <<>>
    /\ filteredPdfs = <<>>
    /\ searchQuery = <<>>
    /\ isLoadingLibrary = FALSE
    /\ isRefreshing = FALSE
    /\ loads = [t \in 1..1 |-> IdleLoad]
    /\ lastLoad = [outcome |-> "ok", files |-> <<>>, threw |-> {}]
    /\ isRenameModalVisible = FALSE
    /\ renamingItem = <<>>
    /\ newFileName = <<>>
    /\ ren = IdleRename
    /\ editingId = <<>>
    /\ editingValue = <<>>
    /\ save = IdleSave
    /\ del = <<>>
    /\ alert = NoAlert
    /\ selectedImages \in SwapDrafts
    /\ isProcessing = FALSE
    /\ showDraftModal = (Len(selectedImages) > 0)
    /\ pdfName = DateStr(now)
    /\ gens = [g \in 1..MaxGens |-> IdleGen]
    /\ pick = IdlePick
    /\ storageSize = ZeroMB
    /\ docCount = 0
    /\ clear = IdleClear
    /\ calcs = IdleCalcs
    /\ lastOp = "pickImages:started"

\* the displacements of a drag along one axis
Translations == (0 - MaxDrag)..MaxDrag

NextSwap ==
    \/ \E fromIdx, toIdx \in SwapIndices : swapImages(fromIdx, toIdx)
    \/ \E index \in SwapIndices : \E translationX, translationY \in Translations :
           dragEnd(index, translationX, translationY)
    \/ \E index \in SwapIndices : \E translationX, translationY \in Translations :
           dragEndUnguarded(index, translationX, translationY)

SpecSwap == InitSwap /\ [][NextSwap]_vars

\* Reordering and removing the images of an open draft
NextEdit ==
    \/ NextSwap
    \/ \E index \in SwapIndices : removeImage(index)
    \/ \E index \in SwapIndices : removeOnPress(index)

SpecEdit == InitSwap /\ [][NextEdit]_vars

-----------------------------------------------------------------------------
(* Overlapping loadLibrary calls: pull-to-refresh and delete, no platform call failing *)

InitRace ==
    /\ dir = LibDir
    /\ LibInit(MaxLoads)
    /\ calcs = IdleCalcs

NextRace ==
    \/ LoadStepInfoOk
    \/ onRefresh
    \/ \E k \in 1..MaxFiles : deletePdf(k)
    \/ deleteCancel
    \/ deleteOnPress(FALSE)

SpecRace == InitRace /\ [][NextRace]_vars

-----------------------------------------------------------------------------
(* Both tabs mounted: the library's refresh beside the settings screen's Clear Library *)

\* the library screen after its mount and the settings screen after its own: the
\* effect of explore.tsx:42-44 has called calculateStorage()
InitSettings ==
    /\ dir = LibDir
    /\ LibInit(1)
    /\ calcs = [IdleCalcs EXCEPT ![1] = [IdleCalc EXCEPT !.pc = "readDir", !.caller = "mount"]]

ClearStep ==
    \/ handleClearLibrary
    \/ clearCancel
    \/ clearOnPress
    \/ \E throws \in BOOLEAN : ClearReadDir(throws)
    \/ \E throws \in BOOLEAN : ClearDelete(throws)

CalcStep ==
    \/ \E c \in CalcIds, throws \in BOOLEAN : CalcReadDir(c, throws)
    \/ \E c \in CalcIds, throws \in BOOLEAN : CalcGetInfo(c, throws)

NextSettings ==
    \/ LoadStepInfoOk
    \/ onRefresh
    \/ ClearStep
    \/ CalcStep

SpecSettings == InitSettings /\ [][NextSettings]_vars

-----------------------------------------------------------------------------
(* The settings screen alone, over a directory that holds a document, a document
   whose extension is in capitals and a file that is no document *)

ClearDir ==
    << [name |-> <<"a", ".", "p", "d", "f">>, size |-> 6000, mtime |-> 1,
        content |-> << <<"a">> >>],
       [name |-> <<"n", ".", "t", "x", "t">>, size |-> 7000, mtime |-> 1,
        content |-> << <<"n">> >>],
       [name |-> <<"B", ".", "P", "D", "F">>, size |-> 12000, mtime |-> 2,
        content |-> << <<"B">> >>] >>

InitClear ==
    /\ dir = ClearDir
    /\ LibInit(1)
    /\ calcs = [IdleCalcs EXCEPT ![1] = [IdleCalc EXCEPT !.pc = "readDir", !.caller = "mount"]]

NextClear ==
    \/ ClearStep
    \/ CalcStep

SpecClear == InitClear /\ [][NextClear]_vars

-----------------------------------------------------------------------------
(* Document creation beside the library's loads *)

\* the images the system picker can return
AssetLists == { <<"i1">>, <<"i1", "i2">> }

\* the names typed into the FILENAME field
DraftNames == { <<>> }

\* the copy of conversion g finds room on the volume
HasRoom(g) == Exists(dir, FinalName(gens[g].name)) \/ Len(dir) < MaxDirFiles

InitDraft ==
    /\ dir = <<>>
    /\ LibInit(1)
    /\ calcs = IdleCalcs

PickStep ==
    \/ \E isAppending \in BOOLEAN : pickImages(isAppending)
    \/ \E granted \in BOOLEAN : PickPermission(granted)
    \/ PickResult(TRUE, <<>>)
    \/ \E uris \in AssetLists : PickResult(FALSE, uris)

EditStep ==
    \/ \E text \in DraftNames : setPdfName(text)
    \/ \E index \in 0..(MaxImages - 1) : removeImage(index)
    \/ \E index \in 0..(MaxImages - 1), translationX \in {0 - ColPitch, 0, ColPitch} :
           dragEnd(index, translationX, 0)
    \/ cancelDraft

GenStep ==
    \/ generatePdf
    \/ \E g \in GenIds : \E i \in 1..MaxImages, throws \in BOOLEAN : GenRead(g, i, throws)
    \/ \E g \in GenIds : \E throws \in BOOLEAN : GenPrint(g, throws)
    \/ \E g \in GenIds : GenCopy(g, TRUE) \/ (HasRoom(g) /\ GenCopy(g, FALSE))

NextDraft ==
    \/ LoadStepInfoOk
    \/ (\E t \in LoadIds : LoadReadDirFails(t))
    \/ PickStep
    \/ EditStep
    \/ GenStep

SpecDraft == InitDraft /\ [][NextDraft]_vars

\* Document creation when permission is granted, the picker returns images, the
\* default name is kept and the directory can be listed
NextConvert ==
    \/ LoadStepInfoOk
    \/ \E isAppending \in BOOLEAN : pickImages(isAppending)
    \/ PickPermission(TRUE)
    \/ \E uris \in AssetLists : PickResult(FALSE, uris)
    \/ \E index \in 0..(MaxImages - 1) : removeImage(index)
    \/ \E index \in 0..(MaxImages - 1), translationX \in {0 - ColPitch, 0, ColPitch} :
           dragEnd(index, translationX, 0)
    \/ cancelDraft
    \/ GenStep

SpecConvert == InitDraft /\ [][NextConvert]_vars

\* Picking images, to start a draft or to add to the open one, and Cancel of the draft
NextPick ==
    \/ PickStep
    \/ cancelDraft

SpecPick == InitSwap /\ [][NextPick]_vars

-----------------------------------------------------------------------------
(* Every operation of the library screen that can fail: refresh, rename, delete and
   conversion, with overlapping loadLibrary calls; every rename and delete fails at
   its first platform call *)

\* a.pdf alone
FailDir == << LibDir[1] >>

InitFail ==
    /\ dir = FailDir
    /\ LibInit(MaxLoads)
    /\ calcs = IdleCalcs

NextFail ==
    \/ LoadStepInfoOk
    \/ (\E t \in LoadIds : LoadReadDirFails(t))
    \/ onRefresh
    \/ \E k \in 1..MaxFiles : deletePdf(k)
    \/ deleteOnPress(TRUE)
    \/ \E k \in 1..MaxFiles : startRename(k)
    \/ confirmRename(TRUE)
    \/ pickImages(FALSE)
    \/ PickPermission(TRUE)
    \/ PickResult(FALSE, <<"i1">>)
    \/ GenStep

SpecFail == InitFail /\ [][NextFail]_vars

-----------------------------------------------------------------------------
(* Claims about loadLibrary, checked under SpecLoad *)

\* a name ending in '.pdf' in any mix of upper and lower case
HasPdfSuffix(name) ==
    /\ Len(name) >= 4
    /\ name[Len(name) - 3] = "."
    /\ name[Len(name) - 2] \in {"p", "P"}
    /\ name[Len(name) - 1] \in {"d", "D"}
    /\ name[Len(name)] \in {"f", "F"}

PdfEntries(d) == {i \in 1..Len(d) : HasPdfSuffix(d[i].name)}

\* C1: after a loadLibrary call that read the directory has completed, pdfs holds
\* exactly one document per directory entry whose name ends in '.pdf' (in any case)
\* and no other entry, ordered by timestamp descending; the timestamp of a document
\* whose metadata was read and reports a modification time is that time.
C1_LoadListsPdfEntries ==
    lastOp = "loadLibrary:published" =>
        /\ Len(pdfs) = Cardinality(PdfEntries(dir))
        /\ \A i \in PdfEntries(dir) :
               Cardinality({k \in 1..Len(pdfs) : pdfs[k].id = dir[i].name}) = 1
        /\ \A k \in 1..Len(pdfs) :
               \E i \in PdfEntries(dir) :
                   /\ pdfs[k].id = dir[i].name
                   /\ pdfs[k].name = dir[i].name
                   /\ (pdfs[k].date.text # "Error" /\ dir[i].mtime # 0)
                          => pdfs[k].timestamp = dir[i].mtime
        /\ \A k, l \in 1..Len(pdfs) : k < l => pdfs[k].timestamp >= pdfs[l].timestamp

\* C1 witness: a completed load of a directory holding B.PDF before a newer a.pdf
\* lists both, the newer one first
C1_Witness ==
    /\ lastOp = "loadLibrary:published"
    /\ Len(dir) = 2
    /\ dir[1].name = <<"B", ".", "P", "D", "F">>
    /\ Len(pdfs) = 2
    /\ pdfs[1].id = dir[2].name
    /\ pdfs[1].timestamp > pdfs[2].timestamp

NoErrorDoc(docs) == \A k \in 1..Len(docs) : docs[k].date.text # "Error"

\* C2: two consecutive loadLibrary calls over an unchanged directory, both of which
\* read the directory and every entry's metadata, publish the same document
\* sequence: same ids in the same order with the same timestamp, date and size.
C2_RefreshIdempotent ==
    [][ ( /\ lastLoad.outcome = "ok"
          /\ lastOp' = "loadLibrary:published"
          /\ dir' = dir
          /\ NoErrorDoc(pdfs)
          /\ NoErrorDoc(pdfs') )
        => pdfs' = pdfs ]_vars

-----------------------------------------------------------------------------
(* Claims about rename and overlapping refreshes *)

\* Save is pressed on a name whose '<name>.pdf' is another, existing file
RenameConflict ==
    /\ isRenameModalVisible
    /\ RenameAccepted
    /\ ren.pc = "idle"
    /\ Exists(dir, NameOfUri(renamingItem[1].uri))
    /\ Exists(dir, RenameTarget)
    /\ RenameTarget # NameOfUri(renamingItem[1].uri)

\* C3: confirmRename to a name whose '<name>.pdf' already exists fails with an error
\* and leaves both files unchanged: nothing is copied over the existing target and
\* the source is not queued for deletion.
C3_RenameConflictRejected ==
    [][ ( /\ RenameConflict
          /\ lastOp' \in {"confirmRename:copied", "confirmRename:catch"} )
        => ( /\ dir' = dir
             /\ ren'.pc = "idle"
             /\ alert'.title = "Error" ) ]_vars

AllLoadsIdle == \A t \in LoadIds : loads[t].pc = "idle"

\* C4: once every overlapping loadLibrary call has completed, the library list is
\* the enumeration of the directory as it then is: the same '.pdf' entries, once each.
C4_IndexFollowsDirectory ==
    AllLoadsIdle =>
        /\ {pdfs[k].id : k \in 1..Len(pdfs)} = {dir[i].name : i \in PdfEntries(dir)}
        /\ Len(pdfs) = Cardinality(PdfEntries(dir))

AllGensIdle == \A g \in DOMAIN gens : gens[g].pc = "idle"

\* C5: every operation that changes the set of PDF files refreshes the Library
\* Index: once no rename, delete, conversion, Clear Library or loadLibrary call is in
\* flight, the library list shows no deleted file and misses no created one.
C5_MutationsRefreshIndex ==
    ( /\ AllLoadsIdle
      /\ ren.pc = "idle"
      /\ AllGensIdle
      /\ clear.pc \in {"idle", "confirm"} )
    => {pdfs[k].id : k \in 1..Len(pdfs)} = {dir[i].name : i \in PdfEntries(dir)}

-----------------------------------------------------------------------------
(* Claims about document creation *)

\* C6: when a conversion fails, the error is surfaced and the draft is preserved:
\* selectedImages is as it was and not empty, the draft modal is open and
\* isProcessing is false, so that Generate can be pressed again.
C6_FailurePreservesDraft ==
    [][ lastOp' = "generatePdf:catch"
        => /\ alert'.title = "Failed"
           /\ selectedImages' = selectedImages
           /\ selectedImages' # <<>>
           /\ showDraftModal'
           /\ ~isProcessing' ]_vars

\* the state of the creation state machine; ImagesSelected is passed through within
\* the step that opens the draft
CreationState ==
    IF isProcessing
    THEN IF showDraftModal THEN "Converting" ELSE "none"
    ELSE IF showDraftModal THEN "Reviewing" ELSE "Idle"

CreationEdges ==
    { <<"Idle", "Reviewing">>, <<"Reviewing", "Converting">>, <<"Converting", "Idle">>,
      <<"Reviewing", "Idle">>, <<"Converting", "Reviewing">> }

Listed(docs, name) == \E k \in 1..Len(docs) : docs[k].id = name

\* C7: creation moves only along Idle -> Reviewing -> Converting -> Idle,
\* Reviewing -> Idle and Converting -> Reviewing, and a conversion that succeeds
\* leaves the draft modal closed, selectedImages empty, isProcessing false and the
\* written file listed in the library.
C7_CreationPaths ==
    [][ /\ CreationState' # CreationState
           => <<CreationState, CreationState'>> \in CreationEdges
        /\ \A g \in GenIds :
              (gens[g].pc = "load" /\ gens'[g].pc = "idle")
              => /\ ~showDraftModal'
                 /\ selectedImages' = <<>>
                 /\ ~isProcessing'
                 /\ Listed(pdfs', FinalName(gens[g].name)) ]_vars

\* the pages a conversion of images has to produce
PagesOf(images) == [i \in 1..Len(images) |-> DataUri(images[i])]

\* C8: a conversion works on selectedImages as it is when Generate is pressed, and
\* its copy writes one file whose pages are those images, one page each, in that
\* order, whatever the order in which the reads completed; no other file changes.
C8_PagesInPressOrder ==
    [][ \A g \in GenIds :
          /\ (gens[g].pc = "idle" /\ gens'[g].pc = "read")
             => gens'[g].images = selectedImages
          /\ (gens[g].pc # "idle" /\ gens'[g].pc # "idle")
             => gens'[g].images = gens[g].images
          /\ (gens[g].pc = "copy" /\ gens'[g].pc = "load")
             => LET written == FinalName(gens[g].name) IN
                /\ Exists(dir', written)
                /\ FileNamed(dir', written).content = PagesOf(gens[g].images)
                /\ Len(FileNamed(dir', written).content) = Len(gens[g].images)
                /\ Len(dir') <= Len(dir) + 1
                /\ \A i \in 1..Len(dir) :
                      dir[i].name # written => \E j \in 1..Len(dir') : dir'[j] = dir[i] ]_vars

\* two different images, read in the order opposite to their order in the draft,
\* have been written as the two pages of one file, in the order of the draft
C8_Witness ==
    /\ lastOp = "generatePdf:copied"
    /\ \E g \in GenIds :
          /\ gens[g].pc = "load"
          /\ gens[g].images = <<"i2", "i1">>
          /\ gens[g].order = <<2, 1>>
          /\ Exists(dir, FinalName(gens[g].name))
          /\ FileNamed(dir, FinalName(gens[g].name)).content
                = <<DataUri("i2"), DataUri("i1")>>

\* the generatePdf calls that have started and not finished
InFlight == {g \in GenIds : gens[g].pc # "idle"}

\* C9: at most one conversion is outstanding, and isProcessing is true exactly while
\* one is, which keeps the Generate control away.
C9_OneConversion ==
    /\ Cardinality(InFlight) <= 1
    /\ isProcessing <=> InFlight # {}
    /\ InFlight # {} => ~GenerateAvailable

\* a conversion is in flight while the draft, with an image in it, takes touches
C9_Witness ==
    /\ InFlight # {}
    /\ DraftInteractive
    /\ selectedImages # <<>>
    /\ lastOp = "cancelDraft:ignored"

\* C10: while a conversion is in flight the draft modal stays open, whatever the
\* user does in the draft.
C10_DraftStaysOpen ==
    [][ (isProcessing /\ showDraftModal /\ isProcessing') => showDraftModal' ]_vars

\* C11: Cancel pressed on a draft under review closes the draft modal, leaves no
\* conversion outstanding and leaves none of the draft's images in selectedImages.
C11_CancelDiscardsDraft ==
    [][ lastOp' = "cancelDraft"
        => /\ ~showDraftModal'
           /\ ~isProcessing'
           /\ Range(selectedImages') \cap Range(selectedImages) = {} ]_vars

-----------------------------------------------------------------------------
(* Claims about failures of loadLibrary, rename and delete *)

\* the entry of the library list for the file called name
DocOf(docs, name) == docs[CHOOSE k \in 1..Len(docs) : docs[k].id = name]

\* C12: a loadLibrary call in which the getInfoAsync of some entries throws still
\* publishes one entry per pdf file of its listing: the entries that threw with
\* size '0 MB', date 'Error' and timestamp 0, every other entry with the size of
\* its file and the date of its modification time.
C12_MetadataFailureIsolated ==
    lastOp = "loadLibrary:published"
    => /\ lastLoad.outcome = "ok"
       /\ ~isLoadingLibrary /\ ~isRefreshing
       /\ Len(pdfs) = Len(lastLoad.files)
       /\ \A i \in 1..Len(lastLoad.files) :
             LET name == lastLoad.files[i] IN
             /\ Listed(pdfs, name)
             /\ IF i \in lastLoad.threw
                THEN /\ DocOf(pdfs, name).size = ZeroMB
                     /\ DocOf(pdfs, name).date = ErrorDate
                     /\ DocOf(pdfs, name).timestamp = 0
                ELSE /\ DocOf(pdfs, name).size = SizeText(FileNamed(dir, name).size)
                     /\ DocOf(pdfs, name).date # ErrorDate
                     /\ FileNamed(dir, name).mtime # 0
                        => DocOf(pdfs, name).date
                              = LocaleDateString(FileNamed(dir, name).mtime)

\* of two pdf files the metadata read of the first threw and the other one is listed
\* with its size of 0.01 MB
C12_Witness ==
    /\ lastOp = "loadLibrary:published"
    /\ Len(lastLoad.files) = 2
    /\ lastLoad.threw = {1}
    /\ DocOf(pdfs, lastLoad.files[1]).date = ErrorDate
    /\ DocOf(pdfs, lastLoad.files[2]).size.hundredths = 1
    /\ DocOf(pdfs, lastLoad.files[2]).date # ErrorDate

\* every file of directory d other than the one called name is in directory e as it is
OthersKept(d, e, name) ==
    \A i \in 1..Len(d) : d[i].name # name => \E j \in 1..Len(e) : e[j] = d[i]

\* Save is pressed for a listed document with a non-blank name that no file has
RenameFree ==
    /\ isRenameModalVisible
    /\ RenameAccepted
    /\ ren.pc = "idle"
    /\ Exists(dir, NameOfUri(renamingItem[1].uri))
    /\ ~Exists(dir, Trim(newFileName) \o DotPdf)

\* C13: a rename to a free non-blank name n first copies the document to '<n>.pdf',
\* every file staying as it is, and then deletes the original: '<n>.pdf' holds the
\* document's content, the old name is gone, every other file is unchanged, the
\* dialog closes and loadLibrary is called.
C13_RenameCopiesThenDeletes ==
    [][ /\ (RenameFree /\ lastOp' = "confirmRename:copied")
           => LET old == NameOfUri(renamingItem[1].uri)
                  new == Trim(newFileName) \o DotPdf
              IN /\ Exists(dir', new)
                 /\ FileNamed(dir', new).content = FileNamed(dir, old).content
                 /\ FileNamed(dir', new).size = FileNamed(dir, old).size
                 /\ Len(dir') = Len(dir) + 1
                 /\ OthersKept(dir, dir', new)
                 /\ ren' = [pc |-> "delete", from |-> old, to |-> new]
        /\ lastOp' = "confirmRename:done"
           => /\ ren.pc = "delete"
              /\ ~Exists(dir', ren.from)
              /\ Exists(dir', ren.to)
              /\ FileNamed(dir', ren.to) = FileNamed(dir, ren.to)
              /\ Len(dir') = Len(dir) - 1
              /\ OthersKept(dir, dir', ren.from)
              /\ ~isRenameModalVisible'
              /\ \E t \in LoadIds : loads[t].pc = "idle" /\ loads'[t].pc = "readDir" ]_vars

\* a.pdf has been renamed to the free name c: c.pdf holds a's content beside b.pdf
C13_Witness ==
    /\ lastOp = "confirmRename:done"
    /\ Len(dir) = 2
    /\ ~Exists(dir, <<"a", ".", "p", "d", "f">>)
    /\ Exists(dir, <<"c", ".", "p", "d", "f">>)
    /\ FileNamed(dir, <<"c", ".", "p", "d", "f">>).content = << <<"a">> >>
    /\ FileNamed(dir, <<"b", ".", "p", "d", "f">>) = LibDir[2]

\* C14: when the copy of a rename has succeeded and the delete of the original
\* fails, the directory stays as the copy left it, with the document under the old
\* and under the new name, the alert 'Could not rename file.' is shown and the
\* rename is over.
C14_DeleteFailureDuplicates ==
    [][ (ren.pc = "delete" /\ lastOp' = "confirmRename:catch")
        => /\ dir' = dir
           /\ Exists(dir', ren.from)
           /\ Exists(dir', ren.to)
           /\ FileNamed(dir', ren.to).content = FileNamed(dir', ren.from).content
           /\ alert' = [title |-> "Error", message |-> "Could not rename file."]
           /\ ren'.pc = "idle" ]_vars

\* a.pdf was copied to c.pdf, the delete of a.pdf failed: three files, a twice
C14_Witness ==
    /\ lastOp = "confirmRename:catch"
    /\ alert.title = "Error"
    /\ Len(dir) = 3
    /\ Exists(dir, <<"a", ".", "p", "d", "f">>)
    /\ Exists(dir, <<"c", ".", "p", "d", "f">>)
    /\ FileNamed(dir, <<"c", ".", "p", "d", "f">>).content = << <<"a">> >>
    /\ FileNamed(dir, <<"a", ".", "p", "d", "f">>) = LibDir[1]

\* the text is empty or white space only
Blank(text) == \A i \in 1..Len(text) : text[i] = " "

\* C15: Save pressed in the rename dialog with an empty or white-space-only name
\* issues no copy and no delete and starts no refresh: the directory, the library
\* list and the displayed list stay as they are.
C15_BlankRenameRejected ==
    [][ ( /\ isRenameModalVisible
          /\ Blank(newFileName)
          /\ \/ lastOp' = "confirmRename:ignored"
             \/ ren.pc = "idle" /\ lastOp' \in {"confirmRename:copied", "confirmRename:catch"} )
        => /\ lastOp' = "confirmRename:ignored"
           /\ dir' = dir
           /\ ren' = ren
           /\ loads' = loads
           /\ pdfs' = pdfs
           /\ filteredPdfs' = filteredPdfs ]_vars

\* Save was pressed on the name ' ' and both files are where they were
C15_Witness ==
    /\ lastOp = "confirmRename:ignored"
    /\ isRenameModalVisible
    /\ renamingItem # <<>>
    /\ newFileName = <<" ">>
    /\ dir = LibDir

\* C16: a saveRename call whose target name belongs to a file ends with an alert,
\* without copy or delete: the directory is unchanged, the call is over and
\* editingId is null.
C16_SaveRenameConflict ==
    [][ (save.pc = "getInfo" /\ Exists(dir, save.to) /\ save' # save)
        => /\ alert'.title \in {"Error", "Rename Failed"}
           /\ dir' = dir
           /\ save'.pc = "idle"
           /\ editingId' = <<>> ]_vars

\* a.pdf was to be renamed to ' b' while b.pdf exists: the alert is up, both files
\* are where they were and edit mode is over
C16_Witness ==
    /\ lastOp = "saveRename:exists"
    /\ alert = [title |-> "Error", message |-> "A file with this name already exists."]
    /\ dir = LibDir
    /\ editingValue = <<" ", "b">>
    /\ editingId = <<>>
    /\ save.pc = "idle"

\* C17: the refresh that follows a successful delete does not list the deleted
\* document and lists every other document with the name, size and date it had in
\* the list before the delete.
C17_DeleteKeepsOthers ==
    [][ (lastOp' = "loadLibrary:published" /\ lastLoad.outcome = "ok")
        => \A k \in 1..Len(pdfs) :
              IF Exists(dir, pdfs[k].id)
              THEN /\ Listed(pdfs', pdfs[k].id)
                   /\ DocOf(pdfs', pdfs[k].id).name = pdfs[k].name
                   /\ DocOf(pdfs', pdfs[k].id).size = pdfs[k].size
                   /\ DocOf(pdfs', pdfs[k].id).date = pdfs[k].date
              ELSE ~Listed(pdfs', pdfs[k].id) ]_vars

\* C18: when the deleteAsync of a confirmed delete fails, the error alert is shown,
\* no delete is left pending, every file of the directory (the one that was to be
\* deleted included) is still there, and the list is as it was with no refresh
\* started.
C18_DeleteFailureSurfaced ==
    [][ (del # <<>> /\ lastOp' = "deletePdf:catch")
        => /\ alert' = [title |-> "Error", message |-> "Could not delete file."]
           /\ del' = <<>>
           /\ dir' = dir
           /\ Exists(dir, NameOfUri(del[1].uri))
                 => Exists(dir', NameOfUri(del[1].uri))
           /\ pdfs' = pdfs
           /\ filteredPdfs' = filteredPdfs
           /\ loads' = loads ]_vars

\* a delete has just failed with both files still stored and listed
C18_Witness ==
    /\ lastOp = "deletePdf:catch"
    /\ alert.title = "Error"
    /\ del = <<>>
    /\ Len(dir) = 2
    /\ Len(pdfs) = 2
    /\ AllLoadsIdle

\* C19: swapImages(i, j) of index.tsx leaves a draft of length n as it is when
\* i = j or when i or j is outside 0..n-1.
C19_SwapIgnored ==
    \A i, j \in SwapIndices :
        (i = j \/ i \notin 0..(Len(selectedImages) - 1)
               \/ j \notin 0..(Len(selectedImages) - 1))
        => ImagesAfterSwap(selectedImages, i, j) = selectedImages

\* a call of swapImages has returned early on the draft [A, B, C]
C19_Witness ==
    /\ lastOp = "swapImages:return"
    /\ selectedImages = <<"A", "B", "C">>

\* the draft in which positions i and j of images (counted from 0) are exchanged
Exchanged(images, i, j) ==
    [k \in 1..Len(images) |->
        IF k = i + 1 THEN images[j + 1]
        ELSE IF k = j + 1 THEN images[i + 1]
        ELSE images[k]]

\* C20: for distinct i and j in 0..n-1, swapImages(i, j) of either screen stores the
\* draft with exactly positions i and j exchanged and the same length, [A, B, C]
\* becoming [C, B, A] under swapImages(0, 2), and a second swapImages(i, j) stores
\* the first draft again.
C20_SwapExchanges ==
    /\ \A i, j \in 0..(Len(selectedImages) - 1) :
          i # j =>
            /\ ImagesAfterSwap(selectedImages, i, j) = Exchanged(selectedImages, i, j)
            /\ ImagesAfterSwap(ImagesAfterSwap(selectedImages, i, j), i, j)
                  = selectedImages
            /\ ImagesAfterSwap_Unguarded(selectedImages, i, j)
                  = Exchanged(selectedImages, i, j)
            /\ ImagesAfterSwap_Unguarded(
                   ImagesAfterSwap_Unguarded(selectedImages, i, j), i, j)
                  = selectedImages
    /\ selectedImages = <<"A", "B", "C">>
          => /\ ImagesAfterSwap(selectedImages, 0, 2) = <<"C", "B", "A">>
             /\ ImagesAfterSwap_Unguarded(selectedImages, 0, 2) = <<"C", "B", "A">>

\* [C, B, A] on screen after a swap of either screen
C20_Witness ==
    /\ lastOp \in {"swapImages", "swapImages:unguarded"}
    /\ selectedImages = <<"C", "B", "A">>

\* shift is an integer nearest to translation / pitch
Nearest(shift, translation, pitch) ==
    /\ 2 * (translation - shift * pitch) <= pitch
    /\ 2 * (shift * pitch - translation) <= pitch

\* C21: at the end of a drag of the thumbnail at index in a draft of total images,
\* colShift and rowShift are the displacement over the pitch rounded to a nearest
\* integer, the target is index + colShift + 2 * rowShift clamped to 0..total-1 and
\* lies in 0..total-1, swapImages is called exactly when the target differs from
\* index, and the draft stored is the one with those two positions exchanged, in
\* both screens.
C21_DragTarget ==
    \A index \in 0..(Len(selectedImages) - 1) :
      \A translationX, translationY \in Translations :
        LET total == Len(selectedImages)
            colShift == ColShift(translationX)
            rowShift == RowShift(translationY)
            wanted == index + colShift + 2 * rowShift
            clamped == IF wanted < 0 THEN 0
                       ELSE IF wanted > total - 1 THEN total - 1 ELSE wanted
            target == TargetIndex(index, total, translationX, translationY)
        IN  /\ Nearest(colShift, translationX, ColPitch)
            /\ Nearest(rowShift, translationY, RowPitch)
            /\ target = clamped
            /\ target \in 0..(total - 1)
            /\ DragSwaps(index, total, translationX, translationY) <=> (target # index)
            /\ ImagesAfterDrag(selectedImages, index, translationX, translationY)
                  = Exchanged(selectedImages, index, target)
            /\ ImagesAfterDrag_Unguarded(selectedImages, index, translationX, translationY)
                  = Exchanged(selectedImages, index, target)

\* a drag has ended without a swap on a draft of three images, the next drag of its
\* first thumbnail by one row lands on the third
C21_Witness ==
    /\ lastOp = "dragEnd"
    /\ Len(selectedImages) = 3
    /\ TargetIndex(0, 3, 0, RowPitch) = 2

\* C22: removing the image at position k (counted from 0, 0 <= k < n) of a draft of
\* n images stores a draft of n - 1 images in which the images before k are where
\* they were and each image after k is one position lower.
C22_RemoveShiftsDown ==
    \A k \in 0..(Len(selectedImages) - 1) :
        LET newImages == WithoutIndex(selectedImages, k) IN
        /\ Len(newImages) = Len(selectedImages) - 1
        /\ \A i \in 0..(k - 1) : newImages[i + 1] = selectedImages[i + 1]
        /\ \A i \in (k + 1)..(Len(selectedImages) - 1) :
              newImages[i] = selectedImages[i + 1]

\* the middle image has been removed from a draft: two images are left of three
C22_Witness ==
    /\ lastOp \in {"removeImage", "removeOnPress"}
    /\ selectedImages = <<"A", "C">>

\* C23: removeImage on a draft of one image stores the empty draft and closes the
\* draft modal, and no removeImage leaves the modal open on an empty draft.
C23_RemoveLastCloses ==
    [][ lastOp' = "removeImage"
        => /\ Len(selectedImages) = 1
                => (selectedImages' = <<>> /\ ~showDraftModal')
           /\ Len(selectedImages') = 0 => ~showDraftModal' ]_vars

\* the only image of a draft has just been removed
C23_Witness ==
    /\ lastOp = "removeImage"
    /\ selectedImages = <<>>
    /\ ~showDraftModal

C27_PermissionDeniedAborts ==
    [][ (pick.pc = "permission" /\ lastOp' = "pickImages:denied")
        => /\ alert' = [title |-> "Permission needed",
                        message |-> "Access to photos is required."]
           /\ pick' = IdlePick
           /\ selectedImages' = selectedImages
           /\ pdfName' = pdfName
           /\ showDraftModal' = showDraftModal ]_vars

\* the permission has been refused to an append to an open draft
C27_Witness ==
    /\ lastOp = "pickImages:denied"
    /\ alert.title = "Permission needed"
    /\ pick = IdlePick
    /\ showDraftModal
    /\ selectedImages = <<"A", "B">>

\* name contains query when both are compared in lower case
ContainsIgnoringCase(name, query) ==
    \E i \in 0..(Len(name) - Len(query)) :
        \A j \in 1..Len(query) : LowerChar(name[i + j]) = LowerChar(query[j])

\* C25: the list on screen is the library filtered by the query: the documents of
\* pdfs, in the order of pdfs, whose name contains searchQuery without regard to
\* case, and pdfs itself when the query is empty; for filteredPdfs once the effect
\* of a change has run, and for the list data of the alternate screen.
C25_ListIsFilteredLibrary ==
    LET matching == SelectSeq(pdfs, LAMBDA p : ContainsIgnoringCase(p.name, searchQuery))
    IN  /\ filteredPdfs = matching
        /\ ArchiveListData = matching
        /\ searchQuery = <<>> => (filteredPdfs = pdfs /\ ArchiveListData = pdfs)

\* "A" is typed and the list shows a.pdf alone of the two documents of the library
C25_Witness ==
    /\ searchQuery = <<"A">>
    /\ Len(pdfs) = 2
    /\ Len(filteredPdfs) = 1
    /\ filteredPdfs[1].name = <<"a", ".", "p", "d", "f">>

\* a step in which a refresh, a rename, a delete or a conversion returns after a
\* failure
FailureReturns ==
    \/ lastOp' \in {"loadLibrary:catch", "confirmRename:catch", "deletePdf:catch",
                    "generatePdf:catch"}
    \/ \E t \in LoadIds :
          /\ loads[t].pc = "readDir"
          /\ loads'[t].pc = "idle"
          /\ lastLoad'.outcome = "dirError"

\* C26 as stated: when a refresh, a rename, a delete or a conversion returns after
\* a failure, isLoadingLibrary, isRefreshing and isProcessing are all false.
C26_FlagsDownAfterFailure ==
    [][ FailureReturns
        => (~isLoadingLibrary' /\ ~isRefreshing' /\ ~isProcessing') ]_vars

\* C26, amended: when a refresh, a rename, a delete or a conversion returns after a
\* failure and no other loadLibrary call or conversion is still in flight,
\* isLoadingLibrary, isRefreshing and isProcessing are all false.
C26_FlagsDownOnceQuiet ==
    [][ (FailureReturns /\ AllLoadsIdle' /\ AllGensIdle')
        => (~isLoadingLibrary' /\ ~isRefreshing' /\ ~isProcessing') ]_vars

\* a conversion has just failed with nothing else in flight and no flag is up
C26_Witness ==
    /\ lastOp = "generatePdf:catch"
    /\ AllLoadsIdle
    /\ AllGensIdle
    /\ ~isLoadingLibrary
    /\ ~isRefreshing
    /\ ~isProcessing

\* name n holds content c in directory d
Holds(d, n, c) == \E i \in 1..Len(d) : d[i].name = n /\ d[i].content = c

\* C28: a rename never loses a document: when confirmRename returns, by its last
\* statement or by its catch block, for any non-blank new name, the document's own
\* name included, the content the document had is stored under the old name or
\* under the new name.
C28_RenameKeepsDocument ==
    [][ LET old == IF ren.pc = "delete" THEN ren.from ELSE NameOfUri(renamingItem[1].uri)
            new == IF ren.pc = "delete" THEN ren.to ELSE RenameTarget
        IN (/\ lastOp' \in {"confirmRename:done", "confirmRename:catch"}
            /\ Exists(dir, old))
           => \/ Holds(dir', old, FileNamed(dir, old).content)
              \/ Holds(dir', new, FileNamed(dir, old).content) ]_vars

\* C29: a conversion whose copy into the documents directory succeeds adds exactly
\* one file to the directory and leaves every file that was there as it was,
\* whatever the draft's name, a name whose '<cleanName>.pdf' is already a file's
\* name included.
C29_ConversionAddsOne ==
    [][ lastOp' = "generatePdf:copied"
        => /\ Len(dir') = Len(dir) + 1
           /\ \A i \in 1..Len(dir) : \E j \in 1..Len(dir') : dir'[j] = dir[i] ]_vars

\* the name ends in '.pdf', in capitals or not
EndsInPdf(name) ==
    /\ Len(name) >= 4
    /\ name[Len(name) - 3] = "."
    /\ name[Len(name) - 2] \in {"p", "P"}
    /\ name[Len(name) - 1] \in {"d", "D"}
    /\ name[Len(name)] \in {"f", "F"}

\* the files of directory d whose name ends in '.pdf', as positions
DocEntries(d) == {i \in 1..Len(d) : EndsInPdf(d[i].name)}

\* the step is the listing of a calculateStorage call coming back
CalcLists ==
    \E c \in CalcIds : /\ calcs[c].pc = "readDir"
                       /\ calcs'[c].pc # "readDir"
                       /\ lastOp' # "calculateStorage:catch"

\* the step is the end of the calculateStorage call made by a completed Clear Library
ClearCalcDone ==
    \E c \in CalcIds : /\ calcs[c].caller = "clear"
                       /\ calcs[c].pc # "idle"
                       /\ calcs'[c].pc = "idle"
                       /\ lastOp' = "calculateStorage:done"

\* C30: Clear Library, confirmed, deletes files whose name ends in '.pdf' (in any
\* case) and no other file, and when it completes no such file is left; the
\* calculateStorage it then calls ends with docCount 0 and the size text of 0 bytes;
\* and docCount changes only when a calculateStorage gets its listing, to the
\* number of '.pdf' names in it.
C30_ClearLibrary ==
    [][ /\ (\A i \in 1..Len(dir) :
               \/ \E j \in 1..Len(dir') : dir'[j] = dir[i]
               \/ (EndsInPdf(dir[i].name) /\ clear.pc = "delete"))
        /\ (\A j \in 1..Len(dir') : \E i \in 1..Len(dir) : dir[i] = dir'[j])
        /\ (lastOp' = "handleClearLibrary:done" => DocEntries(dir') = {})
        /\ (ClearCalcDone => (docCount' = 0 /\ storageSize' = SizeText(0)))
        /\ IF CalcLists THEN docCount' = Cardinality(DocEntries(dir))
           ELSE docCount' = docCount ]_vars

\* Clear Library has completed over a.pdf, n.txt and B.PDF and its calculateStorage
\* has ended: n.txt alone is left, the statistics are 0 and 0.00 MB
C30_Witness ==
    /\ lastOp = "calculateStorage:done"
    /\ alert.title = "Success"
    /\ dir = << ClearDir[2] >>
    /\ docCount = 0
    /\ storageSize = SizeText(0)
    /\ \A c \in CalcIds : calcs[c].pc = "idle"

=============================================================================
